---- MODULE Spec2Model ----
(***************************************************************************)
(* Model of the workflow compiler and execution engine of                  *)
(* src/ai_backend/workflow_executor.py: WorkflowExecutor._build_graph,      *)
(* the node processors of NodeProcessors, and WorkflowExecutor.execute,    *)
(* which runs the built LangGraph StateGraph superstep by superstep.       *)
(***************************************************************************)
EXTENDS Integers, Sequences, FiniteSets, TLC

VARIABLES
    pc,          \* "idle": executor constructed; "running": inside compiled.invoke; "done": execute returned or raised
    workflow,    \* the workflow argument of execute: [nodes, connections, data]
    plan,        \* the StateGraph built by _build_graph: [nodes, edges, branches, entry]
    state,       \* the WorkflowState threaded through the node functions
    active,      \* the nodes LangGraph has scheduled for the next superstep
    step,        \* supersteps run so far by compiled.invoke
    trace,       \* history: the set of node ids invoked in each superstep so far
    result,      \* what execute gave its caller
    request,     \* the workflow handed to validate_workflow or get_workflow_type
    reply,       \* what validate_workflow or get_workflow_type returned
    other        \* a second execution on the same executor, while it is not the one running

\* the variables of one execution
execution == <<pc, workflow, plan, state, active, step, trace, result>>

\* what an execution leaves alone
aside == <<request, reply, other>>

vars == <<pc, workflow, plan, state, active, step, trace, result, request, reply, other>>

(***************************************************************************)
(* Bounds of the model.                                                    *)
(***************************************************************************)
\* largest number of connections in a workflow
MaxConns == 3

\* largest number of nodes in a workflow handed to validate_workflow or get_workflow_type
MaxInspectedNodes == 3

(***************************************************************************)
(* Strings are sequences of one-character strings, so that lower(),        *)
(* strip() and the substring test are computed and not assumed.  An        *)
(* element longer than one character stands for a literal of the source    *)
(* that holds no upper-case letter of the alphabet below, no blank at its  *)
(* ends that matters, and no occurrence of a condition value of the model. *)
(***************************************************************************)
\* Python's None, for the optional fields that hold atomic values
None == "None"

Str_yes == <<"y", "e", "s">>
Str_YesBlank == <<"Y", "e", "s", " ">>
Str_no == <<"n", "o">>
Str_ohYes == <<"o", "h", " ", "y", "e", "s">>

LowerChar(c) ==
    CASE c = "Y" -> "y"
      [] c = "E" -> "e"
      [] c = "S" -> "s"
      [] c = "N" -> "n"
      [] c = "O" -> "o"
      [] c = "T" -> "t"
      [] OTHER -> c

Lower(s) == [i \in 1..Len(s) |-> LowerChar(s[i])]

RECURSIVE LStrip(_)
LStrip(s) == IF s # <<>> /\ Head(s) = " " THEN LStrip(Tail(s)) ELSE s

RECURSIVE RStrip(_)
RStrip(s) ==
    IF s # <<>> /\ s[Len(s)] = " " THEN RStrip(SubSeq(s, 1, Len(s) - 1)) ELSE s

Strip(s) == RStrip(LStrip(s))

\* Python's `needle in hay` on str
Contains(hay, needle) ==
    \E i \in 1..(Len(hay) - Len(needle) + 1) :
        SubSeq(hay, i, i + Len(needle) - 1) = needle

StartsWith(s, p) == Len(p) <= Len(s) /\ SubSeq(s, 1, Len(p)) = p

EndsWith(s, p) ==
    Len(p) <= Len(s) /\ SubSeq(s, Len(s) - Len(p) + 1, Len(s)) = p

(***************************************************************************)
(* The node and connection universe the workflows are drawn from.  A       *)
(* workflow declares a subset of the nodes, in NodeOrder, and at most      *)
(* MaxConns of the connections, in ConnOrder; a connection whose end is    *)
(* not declared is a dangling connection.                                  *)
(***************************************************************************)
END == "__end__"

NodeOrder == <<"in", "rag", "sheets", "ai", "cond", "outA", "outB", "x">>

NodeIds == {NodeOrder[i] : i \in 1..Len(NodeOrder)}

TypeOf(id) ==
    CASE id = "in" -> "text-input"
      [] id = "rag" -> "rag-documents"
      [] id = "sheets" -> "google-sheets"
      [] id = "ai" -> "ai-model"
      [] id = "ai2" -> "ai-model"
      [] id = "cond" -> "if-condition"
      [] id = "outA" -> "text-output"
      [] id = "outB" -> "text-output"
      [] id = "vin" -> "voice-input"
      [] id = "vout" -> "voice-output"
      [] id = "x" -> "webhook"
      [] OTHER -> "unknown"

Conn(s, sp, t, tp) ==
    [sourceNodeId |-> s, sourcePortId |-> sp, targetNodeId |-> t, targetPortId |-> tp]

\* port ids, as strings
Port_output == <<"output">>
Port_input == <<"input">>
Port_context == <<"context">>
Port_true == <<"output-", "t", "r", "u", "e">>
Port_false == <<"output-", "f", "a", "l", "s", "e">>
Port_True2 == <<"output-", "T", "r", "u", "e", "-2">>
Port_False2 == <<"output-", "f", "a", "l", "s", "e", "-2">>

ConnOrder ==
    << Conn("in", Port_output, "ai", Port_input),
       Conn("in", Port_output, "rag", Port_input),
       Conn("in", Port_output, "cond", Port_input),
       Conn("in", Port_output, "outB", Port_input),
       Conn("rag", Port_output, "ai", Port_context),
       Conn("sheets", Port_output, "ai", Port_context),
       Conn("ai", Port_output, "outA", Port_input),
       Conn("ai", Port_output, "outB", Port_input),
       Conn("ai", Port_output, "cond", Port_input),
       Conn("ai", Port_output, "ai", Port_input),
       Conn("cond", Port_true, "outA", Port_input),
       Conn("cond", Port_false, "outB", Port_input),
       Conn("cond", Port_True2, "outB", Port_input),
       Conn("in", Port_output, "x", Port_input) >>

RECURSIVE Pick(_, _)
\* the subsequence of seq whose indices are in idx
Pick(seq, idx) ==
    IF seq = <<>> THEN <<>>
    ELSE LET rest == Pick(SubSeq(seq, 1, Len(seq) - 1), idx)
         IN  IF Len(seq) \in idx THEN Append(rest, seq[Len(seq)]) ELSE rest

\* the data of the if-condition node: conditionType, field, conditionValue
\* (valueIsStr = FALSE: the JSON value is a number, which data: Dict[str, Any] admits)
CondConfigs ==
    { [conditionType |-> "contains", field |-> "message", conditionValue |-> Str_yes,
       valueIsStr |-> TRUE],
      [conditionType |-> "equals", field |-> "response", conditionValue |-> Str_yes,
       valueIsStr |-> TRUE],
      [conditionType |-> "isYes", field |-> "message", conditionValue |-> <<>>,
       valueIsStr |-> TRUE],
      [conditionType |-> "contains", field |-> "message", conditionValue |-> <<"5">>,
       valueIsStr |-> FALSE] }

\* node_data.get defaults of process_if_condition, for a workflow without the node
DefaultCond ==
    [conditionType |-> "contains", field |-> "response", conditionValue |-> <<>>,
     valueIsStr |-> TRUE]

\* the node ids the connections idx mention
Mentioned(idx) ==
    UNION {{ConnOrder[i].sourceNodeId, ConnOrder[i].targetNodeId} : i \in idx}

\* the declared node sets tried with the connections idx: the mentioned nodes,
\* the mentioned nodes without one of them (a dangling connection), and the
\* mentioned nodes with one more node (an orphan)
NodeSetsFor(idx) ==
    {Mentioned(idx)}
        \cup {Mentioned(idx) \ {x} : x \in Mentioned(idx)}
        \cup {Mentioned(idx) \cup {y} : y \in NodeIds \ Mentioned(idx)}

WorkflowsOver(idx, ns) ==
    { [nodes |-> Pick(NodeOrder, {i \in 1..Len(NodeOrder) : NodeOrder[i] \in ns}),
       connections |-> Pick(ConnOrder, idx),
       data |-> d] :
        d \in IF "cond" \in ns THEN CondConfigs ELSE {DefaultCond} }

\* the connections of a workflow: at most MaxConns of ConnOrder
ConnChoices == {c \in SUBSET (1..Len(ConnOrder)) : Cardinality(c) <= MaxConns}

\* the workflows with the connections idx
Workflows(idx) == UNION {WorkflowsOver(idx, ns) : ns \in NodeSetsFor(idx)}

RECURSIVE Orderings(_)
\* the sequences that list every element of S once
Orderings(S) ==
    IF S = {} THEN {<<>>}
    ELSE UNION {{<<e>> \o o : o \in Orderings(S \ {e})} : e \in S}

\* the connections of the straight workflows: into the ai-model node from the
\* input, retrieval and spreadsheet nodes, and from it to an output node
StraightConns ==
    {i \in 1..Len(ConnOrder) :
        \/ ConnOrder[i].targetNodeId = "ai" /\ ConnOrder[i].sourceNodeId # "ai"
        \/ ConnOrder[i].sourceNodeId = "ai" /\ ConnOrder[i].targetNodeId = "outA"}

\* the workflows over the straight connections, their nodes (with or without one
\* more retrieval or spreadsheet node) declared in every order
DeclaredWorkflows(idx) ==
    UNION {{[nodes |-> o, connections |-> Pick(ConnOrder, idx), data |-> DefaultCond] :
               o \in Orderings(ns)} :
           ns \in {Mentioned(idx)} \cup {Mentioned(idx) \cup {y} : y \in {"rag", "sheets"}}}

\* the nodes of the workflows that are validated and typed: the voice kinds too
InspectedNodeOrder == NodeOrder \o <<"vin", "vout">>

\* the workflows handed to validate_workflow and get_workflow_type: up to
\* MaxInspectedNodes nodes of any kinds and fewer than MaxConns connections,
\* which need not be between the declared nodes
InspectedNodeChoices ==
    {c \in SUBSET (1..Len(InspectedNodeOrder)) : Cardinality(c) <= MaxInspectedNodes}

InspectedConnChoices ==
    {c \in SUBSET (1..Len(ConnOrder)) : Cardinality(c) < MaxConns}

InspectedWorkflow(ns, idx) ==
    [nodes |-> Pick(InspectedNodeOrder, ns),
     connections |-> Pick(ConnOrder, idx),
     data |-> DefaultCond]

\* the workflows of the executions that run interleaved: input, ai-model and
\* output in a line; a condition with both branches wired; a retrieval node
\* feeding the ai-model node of the input; a spreadsheet node as the entry
InterleavedWorkflows ==
    { [nodes |-> <<"in", "ai", "outA">>,
       connections |-> << Conn("in", Port_output, "ai", Port_input),
                          Conn("ai", Port_output, "outA", Port_input) >>,
       data |-> DefaultCond],
      [nodes |-> <<"in", "cond", "outA", "outB">>,
       connections |-> << Conn("in", Port_output, "cond", Port_input),
                          Conn("cond", Port_true, "outA", Port_input),
                          Conn("cond", Port_false, "outB", Port_input) >>,
       data |-> [conditionType |-> "contains", field |-> "message",
                 conditionValue |-> Str_yes, valueIsStr |-> TRUE]],
      [nodes |-> <<"in", "rag", "ai">>,
       connections |-> << Conn("in", Port_output, "ai", Port_input),
                          Conn("rag", Port_output, "ai", Port_context) >>,
       data |-> DefaultCond],
      [nodes |-> <<"sheets", "ai", "outB">>,
       connections |-> << Conn("sheets", Port_output, "ai", Port_context),
                          Conn("ai", Port_output, "outB", Port_input) >>,
       data |-> DefaultCond] }

\* a workflow whose first ai-model node has the output variable v and whose
\* if-condition node, behind a second ai-model node, looks at the field f
VariableWorkflow(v, f) ==
    [nodes |-> <<"in", "ai", "ai2", "cond", "outA", "outB">>,
     connections |-> << Conn("in", Port_output, "ai", Port_input),
                        Conn("ai", Port_output, "ai2", Port_input),
                        Conn("ai2", Port_output, "cond", Port_input),
                        Conn("cond", Port_true, "outA", Port_input),
                        Conn("cond", Port_false, "outB", Port_input) >>,
     data |-> [conditionType |-> "equals", field |-> f, conditionValue |-> Str_yes,
               valueIsStr |-> TRUE],
     variables |-> [ai |-> v]]

\* a workflow whose if-condition node behind the input node searches the message
\* for the pattern; idx picks its connections
RegexWorkflow(pattern, isStr, idx) ==
    [nodes |-> <<"in", "cond", "outA", "outB">>,
     connections |-> Pick(<< Conn("in", Port_output, "cond", Port_input),
                             Conn("cond", Port_true, "outA", Port_input),
                             Conn("cond", Port_false, "outB", Port_input) >>, idx),
     data |-> [conditionType |-> "regex", field |-> "message", conditionValue |-> pattern,
               valueIsStr |-> isStr]]

\* workflows with a second ai-model node, voice nodes, ports of other names,
\* an if-condition node without branches or with several targets a branch,
\* and output variables
VariedWorkflows ==
    { [nodes |-> <<"in", "rag", "ai", "ai2">>,
       connections |-> << Conn("in", Port_output, "ai", Port_input),
                          Conn("ai", Port_output, "ai2", Port_input),
                          Conn("rag", Port_output, "ai2", Port_context) >>,
       data |-> DefaultCond],
      [nodes |-> <<"in", "rag", "ai">>,
       connections |-> << Conn("in", Port_output, "ai", Port_input),
                          Conn("rag", Port_output, "ai", Port_input) >>,
       data |-> DefaultCond],
      [nodes |-> <<"in", "sheets", "ai", "outA">>,
       connections |-> << Conn("in", Port_output, "ai", Port_input),
                          Conn("sheets", Port_output, "ai", Port_input),
                          Conn("ai", Port_output, "outA", Port_input) >>,
       data |-> DefaultCond],
      [nodes |-> <<"vin", "ai", "vout">>,
       connections |-> << Conn("vin", Port_output, "ai", Port_input),
                          Conn("ai", Port_output, "vout", Port_input) >>,
       data |-> DefaultCond],
      [nodes |-> <<"in", "cond">>,
       connections |-> << Conn("in", Port_output, "cond", Port_input) >>,
       data |-> [conditionType |-> "contains", field |-> "message",
                 conditionValue |-> Str_yes, valueIsStr |-> TRUE]],
      [nodes |-> <<"in", "cond", "outA">>,
       connections |-> << Conn("in", Port_output, "cond", Port_input),
                          Conn("cond", Port_output, "outA", Port_input) >>,
       data |-> [conditionType |-> "contains", field |-> "message",
                 conditionValue |-> Str_yes, valueIsStr |-> TRUE]],
      [nodes |-> <<"in", "cond", "outA", "outB">>,
       connections |-> << Conn("in", Port_output, "cond", Port_input),
                          Conn("cond", Port_True2, "outB", Port_input),
                          Conn("cond", Port_False2, "outA", Port_input),
                          Conn("cond", Port_true, "outA", Port_input),
                          Conn("cond", Port_false, "outB", Port_input) >>,
       data |-> [conditionType |-> "contains", field |-> "message",
                 conditionValue |-> Str_yes, valueIsStr |-> TRUE]],
      RegexWorkflow(<<"(", "y", "e", "s">>, TRUE, {1, 2, 3}),
      RegexWorkflow(<<"(", "y", "e", "s">>, TRUE, {1, 2}),
      RegexWorkflow(Str_yes, TRUE, {1, 2, 3}),
      RegexWorkflow(<<"5">>, FALSE, {1, 2, 3}),
      [nodes |-> <<"in", "cond", "outA", "outB">>,
       connections |-> << Conn("in", Port_output, "cond", Port_input),
                          Conn("cond", Port_true, "outA", Port_input),
                          Conn("cond", Port_false, "outB", Port_input) >>,
       data |-> [conditionType |-> "contains", field |-> "message",
                 conditionValue |-> Str_yes, valueIsStr |-> TRUE, id |-> "mine"]],
      VariableWorkflow("answer", "answer"),
      VariableWorkflow("message", "message"),
      VariableWorkflow("response", "response"),
      VariableWorkflow("", "answer"),
      VariableWorkflow("answer", "other") }

VariedNodeIds == NodeIds \cup {"ai2", "vin", "vout"}

Messages == {Str_YesBlank, Str_no, Str_ohYes}

ApiKeys == {None, "sk-user"}

\* a conversation_history with one earlier exchange
PriorTurns ==
    << [role |-> "user", content |-> Str_no],
       [role |-> "assistant", content |-> Str_yes] >>

\* the calls of execute that are tried, as <<message, conversation_history, key>>:
\* every message with and without a key in a new conversation, and one call
\* that continues a conversation
Calls ==
    {<<m, <<>>, k>> : m \in Messages, k \in ApiKeys}
        \cup {<<Str_no, PriorTurns, "sk-user">>}

(***************************************************************************)
(* _build_graph: the adjacency model.                                      *)
(***************************************************************************)
SeqToSet(seq) == {seq[i] : i \in 1..Len(seq)}

NodeSet(wf) == SeqToSet(wf.nodes)

\* adjacency[source_id]: the connections leaving id, in declaration order
Adjacency(wf, id) == SelectSeq(wf.connections, LAMBDA c : c.sourceNodeId = id)

\* the target ids of adjacency[id], in declaration order
Targets(wf, id) ==
    LET adj == Adjacency(wf, id) IN [i \in 1..Len(adj) |-> adj[i].targetNodeId]

\* mutant: the adjacency loop skips the ids it does not know instead of raising
DanglingConnectionSkipped(wf) == FALSE

\* adjacency[conn.sourceNodeId] / incoming[conn.targetNodeId] raise KeyError
DanglingConnection(wf) ==
    \E i \in 1..Len(wf.connections) :
        \/ wf.connections[i].sourceNodeId \notin NodeSet(wf)
        \/ wf.connections[i].targetNodeId \notin NodeSet(wf)

NodesOfType(wf, types) == {n \in NodeSet(wf) : TypeOf(n) \in types}

if_condition_nodes(wf) == NodesOfType(wf, {"if-condition"})
rag_nodes(wf) == NodesOfType(wf, {"rag-documents"})
sheets_nodes(wf) == NodesOfType(wf, {"google-sheets"})
ai_model_nodes(wf) == NodesOfType(wf, {"ai-model"})
input_nodes(wf) == NodesOfType(wf, {"text-input", "voice-input"})

\* ai_from_rag as a set of <<ai_id, rag_id>>: the target port is not looked at
ai_from_rag(wf) ==
    {<<a, r>> \in ai_model_nodes(wf) \X rag_nodes(wf) : a \in SeqToSet(Targets(wf, r))}

ai_from_sheets(wf) ==
    {<<a, s>> \in ai_model_nodes(wf) \X sheets_nodes(wf) : a \in SeqToSet(Targets(wf, s))}

\* ai_from_rag[target_id]: a dict keeps one rag id per ai id, the one the loop
\* over the set rag_nodes met last, which is any of them
Lookup(pairs, a) == CHOOSE r \in {p[2] : p \in {q \in pairs : q[1] = a}} : TRUE

HasKey(pairs, a) == \E p \in pairs : p[1] = a

\* mutant: a node of any other type runs as a pass-through node
GetProcessorOfAnyKind(type) ==
    CASE type = "ai-model" -> "process_ai_model"
      [] type = "rag-documents" -> "process_rag_documents"
      [] type = "google-sheets" -> "process_google_sheets"
      [] type = "if-condition" -> "process_if_condition"
      [] type \in {"text-output", "voice-output"} -> "process_text_output"
      [] OTHER -> "process_text_input"

\* _get_processor: the processor name of a node type, None for any other type
GetProcessor(type) ==
    CASE type = "text-input" -> "process_text_input"
      [] type = "ai-model" -> "process_ai_model"
      [] type = "rag-documents" -> "process_rag_documents"
      [] type = "google-sheets" -> "process_google_sheets"
      [] type = "if-condition" -> "process_if_condition"
      [] type = "text-output" -> "process_text_output"
      [] type = "voice-input" -> "process_text_input"
      [] type = "voice-output" -> "process_text_output"
      [] OTHER -> None

\* the nodes graph.add_node was called for
AddedNodes(wf) == {n \in NodeSet(wf) : GetProcessor(TypeOf(n)) # None}

(***************************************************************************)
(* _build_graph: the edges.                                                *)
(***************************************************************************)
\* the edge an input node's connection to target_id becomes
InputEdgeTarget(wf, target_id) ==
    IF target_id \in ai_model_nodes(wf) /\ HasKey(ai_from_rag(wf), target_id)
    THEN Lookup(ai_from_rag(wf), target_id)
    ELSE IF target_id \in ai_model_nodes(wf) /\ HasKey(ai_from_sheets(wf), target_id)
    THEN Lookup(ai_from_sheets(wf), target_id)
    ELSE target_id

\* mutant: added_edges is kept on the executor from one build to the next
EdgesFromKeepingAdded(wf, source_id) ==
    LET targets == SeqToSet(Targets(wf, source_id))
    IN  (IF source_id \in if_condition_nodes(wf) THEN {}
         ELSE IF source_id \in input_nodes(wf)
         THEN {<<source_id, InputEdgeTarget(wf, t)>> : t \in targets}
         ELSE {<<source_id, t>> : t \in targets}) \ other.plan.edges

\* mutant: a connection is followed in both directions
EdgesFromBothWays(wf, source_id) ==
    LET targets == SeqToSet(Targets(wf, source_id))
    IN  IF source_id \in if_condition_nodes(wf) THEN {}
        ELSE IF source_id \in input_nodes(wf)
        THEN UNION {{<<source_id, InputEdgeTarget(wf, t)>>,
                     <<InputEdgeTarget(wf, t), source_id>>} : t \in targets}
        ELSE UNION {{<<source_id, t>>, <<t, source_id>>} : t \in targets}

\* the plain edges graph.add_edge adds for the connections leaving source_id
EdgesFrom(wf, source_id) ==
    LET targets == SeqToSet(Targets(wf, source_id))
    IN  IF source_id \in if_condition_nodes(wf) THEN {}
        ELSE IF source_id \in input_nodes(wf)
        THEN {<<source_id, InputEdgeTarget(wf, t)>> : t \in targets}
        ELSE {<<source_id, t>> : t \in targets}

\* mutant: the exit nodes lead back to the first declared node instead of END
ExitEdgesLeadingBack(wf) ==
    {<<n, wf.nodes[1]>> : n \in {m \in NodeSet(wf) :
        Adjacency(wf, m) = <<>> /\ m \notin if_condition_nodes(wf)}}

\* exit nodes: no outgoing connection and not an if-condition node
ExitEdges(wf) ==
    {<<n, END>> : n \in {m \in NodeSet(wf) :
        Adjacency(wf, m) = <<>> /\ m \notin if_condition_nodes(wf)}}

PlainEdges(wf) == UNION {EdgesFrom(wf, n) : n \in NodeSet(wf)} \cup ExitEdges(wf)

\* true_targets / false_targets of an if-condition node, in declaration order
PortTargets(wf, id, word) ==
    LET adj == SelectSeq(Adjacency(wf, id),
                         LAMBDA c : Contains(Lower(c.sourcePortId), word))
    IN  [i \in 1..Len(adj) |-> adj[i].targetNodeId]

\* mutant: route_map[END] = END is left out
BranchesWithoutEnd(wf) ==
    [n \in {m \in if_condition_nodes(wf) : Adjacency(wf, m) # <<>>} |->
        [true_tgts |-> PortTargets(wf, n, <<"t", "r", "u", "e">>),
         false_tgts |-> PortTargets(wf, n, <<"f", "a", "l", "s", "e">>),
         route_map |-> SeqToSet(Targets(wf, n)) \cap NodeSet(wf)]]

\* graph.add_conditional_edges: one branch per if-condition node with targets
Branches(wf) ==
    [n \in {m \in if_condition_nodes(wf) : Adjacency(wf, m) # <<>>} |->
        [true_tgts |-> PortTargets(wf, n, <<"t", "r", "u", "e">>),
         false_tgts |-> PortTargets(wf, n, <<"f", "a", "l", "s", "e">>),
         route_map |-> (SeqToSet(Targets(wf, n)) \cap NodeSet(wf)) \cup {END}]]

(***************************************************************************)
(* _build_graph: the entry point.                                          *)
(***************************************************************************)
original_incoming_count(wf, id) ==
    Len(SelectSeq(wf.connections, LAMBDA c : c.targetNodeId = id))

entry_candidates(wf) == SelectSeq(wf.nodes, LAMBDA n : original_incoming_count(wf, n) = 0)

\* mutant: a spreadsheet node is not preferred to an earlier candidate
EntryPointWithoutSheets(wf) ==
    LET cands == entry_candidates(wf)
        input_entries == SelectSeq(cands, LAMBDA n : n \in input_nodes(wf))
        rag_entries == SelectSeq(cands, LAMBDA n : n \in rag_nodes(wf))
    IN  IF input_entries # <<>> THEN input_entries[1]
        ELSE IF rag_entries # <<>> THEN rag_entries[1]
        ELSE IF cands # <<>> THEN cands[1]
        ELSE None

\* mutant: the node declared first is the entry
EntryPointFirstDeclared(wf) == IF wf.nodes # <<>> THEN wf.nodes[1] ELSE None

EntryPoint(wf) ==
    LET cands == entry_candidates(wf)
        input_entries == SelectSeq(cands, LAMBDA n : n \in input_nodes(wf))
        rag_entries == SelectSeq(cands, LAMBDA n : n \in rag_nodes(wf))
        sheets_entries == SelectSeq(cands, LAMBDA n : n \in sheets_nodes(wf))
    IN  IF input_entries # <<>> THEN input_entries[1]
        ELSE IF rag_entries # <<>> THEN rag_entries[1]
        ELSE IF sheets_entries # <<>> THEN sheets_entries[1]
        ELSE IF cands # <<>> THEN cands[1]
        ELSE None

BuildGraph(wf) ==
    [nodes |-> AddedNodes(wf),
     edges |-> PlainEdges(wf),
     branches |-> Branches(wf),
     entry |-> EntryPoint(wf)]

(***************************************************************************)
(* graph.compile(): the validation LangGraph runs on the built graph.      *)
(* Whether a node that no edge leads to ("is not reachable") or that no    *)
(* edge leaves ("is a dead-end") is refused depends on the installed       *)
(* LangGraph release, which the repository does not pin: reachCheck is     *)
(* TRUE for a release that refuses it.                                     *)
(***************************************************************************)
EdgeSources(p) == {e[1] : e \in p.edges} \cup DOMAIN p.branches

EdgeTargets(p) ==
    {e[2] : e \in p.edges}
        \cup UNION {p.branches[b].route_map : b \in DOMAIN p.branches}
        \cup (IF p.entry = None THEN {} ELSE {p.entry})

\* mutant: execute refuses a workflow that validate_workflow would report for
\* its missing ai-model node
CompileErrorWithoutAiModel(p, reachCheck) ==
    \/ p.entry = None
    \/ \E s \in EdgeSources(p) : s \notin p.nodes
    \/ \E t \in EdgeTargets(p) : t \notin p.nodes \cup {END}
    \/ reachCheck /\ \E n \in p.nodes : n \notin EdgeTargets(p)
    \/ reachCheck /\ \E n \in p.nodes : n \notin EdgeSources(p)
    \/ ~\E n \in p.nodes : GetProcessor(TypeOf(n)) = "process_ai_model"

CompileError(p, reachCheck) ==
    \/ p.entry = None
    \/ \E s \in EdgeSources(p) : s \notin p.nodes
    \/ \E t \in EdgeTargets(p) : t \notin p.nodes \cup {END}
    \/ reachCheck /\ \E n \in p.nodes : n \notin EdgeTargets(p)
    \/ reachCheck /\ \E n \in p.nodes : n \notin EdgeSources(p)

(***************************************************************************)
(* execute: the state it creates and the results it returns.               *)
(***************************************************************************)
initial_state(message, conversation_history, key) ==
    [user_message |-> message,
     conversation_history |-> conversation_history,
     current_context |-> <<>>,
     rag_context |-> None,
     sheets_data |-> None,
     condition_results |-> <<>>,
     response |-> <<>>,
     nodes_executed |-> <<>>,
     model_used |-> None,
     output_variables |-> <<>>,
     openai_api_key |-> key]

NoState == initial_state(<<>>, <<>>, None)

NoPlan == [nodes |-> {}, edges |-> {}, branches |-> <<>>, entry |-> None]

NoWorkflow == [nodes |-> <<>>, connections |-> <<>>, data |-> DefaultCond]

NoResult == [pending |-> TRUE]

\* an execution that has not been started
NoExecution ==
    [pc |-> "idle", workflow |-> NoWorkflow, plan |-> NoPlan, state |-> NoState,
     active |-> {}, step |-> 0, trace |-> <<>>, result |-> NoResult]

Raised(exc) == [exception |-> exc]

\* except Exception around _build_graph and graph.compile
BuildFailed(exc) ==
    [response |-> <<"Error building workflow: ", exc>>,
     nodes_executed |-> <<>>,
     model_used |-> None]

\* mutant: compiled.invoke is not guarded and the exception leaves execute
InvokeUnguarded(exc) == Raised(exc)

\* mutant: the error result carries the log and the model of the nodes that ran
InvokeFailedKeepingLog(exc) ==
    [response |-> <<"Error executing workflow: ", exc>>,
     nodes_executed |-> state.nodes_executed,
     model_used |-> state.model_used]

\* except Exception around compiled.invoke
InvokeFailed(exc) ==
    [response |-> <<"Error executing workflow: ", exc>>,
     nodes_executed |-> <<>>,
     model_used |-> None]

\* the dict returned after compiled.invoke
Returned(final_state) ==
    [response |-> final_state.response,
     nodes_executed |-> final_state.nodes_executed,
     model_used |-> final_state.model_used,
     rag_debug |-> <<>>]

(***************************************************************************)
(* The node processors.                                                    *)
(***************************************************************************)
\* mutant: the tag is put in front of the log
LoggedInFront(st, tag) == [st EXCEPT !.nodes_executed = <<tag>> \o @]

\* state["nodes_executed"].append(tag)
Logged(st, tag) == [st EXCEPT !.nodes_executed = Append(@, tag)]

process_text_input(st) == Logged(st, "text-input")

\* mutant: the output node leaves the log as it is
process_text_output_unlogged(st) == st

\* mutant: the output node trims the response
process_text_output_trimming(st) == [Logged(st, "text-output") EXCEPT !.response = Strip(@)]

process_text_output(st) == Logged(st, "text-output")

DemoPrefix == <<"[Demo Mode - No OpenAI API Key configured in Settings] Message received: ">>

\* what llm.invoke does: raise, or answer with one of these texts
LlmOutcomes == {"raise", "yes"}

LlmContent(llm) == Str_yes

DefaultModelName == "gpt-4o-mini"

\* the data of the ai-model node n: outputVariable, "" where none is configured
AiData(wf, n) ==
    [outputVariable |->
        IF "variables" \in DOMAIN wf /\ n \in DOMAIN wf.variables
        THEN wf.variables[n] ELSE ""]

\* if output_variable_name: state["output_variables"][output_variable_name] = text
Stored(st, name, text) ==
    IF name # "" THEN [st EXCEPT !.output_variables = (name :> text) @@ @] ELSE st

\* user_content of process_ai_model: the message, behind the context parts when
\* the retrieval or the spreadsheet slot holds something
user_content(st) ==
    LET context_parts ==
            (IF st.rag_context # None
             THEN <<"Relevant context from documents:", st.rag_context>> ELSE <<>>)
            \o (IF st.sheets_data # None
                THEN <<"Data from spreadsheet:", st.sheets_data>> ELSE <<>>)
    IN  IF context_parts # <<>>
        THEN context_parts \o <<"User query: ">> \o st.user_message
        ELSE st.user_message

\* mutant: the message is kept on the processors object, where the execution
\* that was started last has put its own
process_ai_model_sharing_message(st, nd, llm) ==
    LET s1 == Logged(st, "ai-model")
        message == IF other.pc # "idle" THEN other.state.user_message ELSE s1.user_message
    IN  IF s1.openai_api_key # None
        THEN IF llm = "raise"
             THEN [s1 EXCEPT !.response = <<"Error generating response: ">>]
             ELSE Stored([s1 EXCEPT !.response = LlmContent(llm),
                                    !.model_used = DefaultModelName],
                         nd.outputVariable, LlmContent(llm))
        ELSE Stored([s1 EXCEPT !.response = DemoPrefix \o message,
                               !.model_used = "none (mock)"],
                    nd.outputVariable, DemoPrefix \o message)

\* mutant: the error path names the model and stores the output variable too
process_ai_model_complete_on_error(st, nd, llm) ==
    LET s1 == Logged(st, "ai-model")
    IN  IF s1.openai_api_key # None
        THEN IF llm = "raise"
             THEN Stored([s1 EXCEPT !.response = <<"Error generating response: ">>,
                                    !.model_used = DefaultModelName],
                         nd.outputVariable, <<"Error generating response: ">>)
             ELSE Stored([s1 EXCEPT !.response = LlmContent(llm),
                                    !.model_used = DefaultModelName],
                         nd.outputVariable, LlmContent(llm))
        ELSE Stored([s1 EXCEPT !.response = DemoPrefix \o s1.user_message,
                               !.model_used = "none (mock)"],
                    nd.outputVariable, DemoPrefix \o s1.user_message)

process_ai_model(st, nd, llm) ==
    LET s1 == Logged(st, "ai-model")
    IN  IF s1.openai_api_key # None
        THEN IF llm = "raise"
             THEN [s1 EXCEPT !.response = <<"Error generating response: ">>]
             ELSE Stored([s1 EXCEPT !.response = LlmContent(llm),
                                    !.model_used = DefaultModelName],
                         nd.outputVariable, LlmContent(llm))
        ELSE Stored([s1 EXCEPT !.response = DemoPrefix \o s1.user_message,
                               !.model_used = "none (mock)"],
                    nd.outputVariable, DemoPrefix \o s1.user_message)

\* what the retrieval finds: the vector library is missing, nothing relevant,
\* some documents, or an error inside the try block
RagOutcomes(st) ==
    IF st.openai_api_key = None THEN {"faiss_missing", "ready"}
    ELSE {"faiss_missing", "none", "docs", "error"}

process_rag_documents(st, found) ==
    LET s1 == Logged(st, "rag-documents")
    IN  IF found = "faiss_missing"
        THEN [s1 EXCEPT !.rag_context = "[FAISS not installed]"]
        ELSE IF s1.openai_api_key = None
        THEN [s1 EXCEPT !.rag_context = "[OpenAI API key required for embeddings]"]
        ELSE IF found = "docs" THEN [s1 EXCEPT !.rag_context = "[Source 1]"]
        ELSE IF found = "none" THEN [s1 EXCEPT !.rag_context = None]
        ELSE [s1 EXCEPT !.rag_context = "[RAG Error]"]

SheetsOutcomes == {"data", "error"}

process_google_sheets(st, found) ==
    LET s1 == Logged(st, "google-sheets")
    IN  IF found = "data"
        THEN [s1 EXCEPT !.sheets_data = "Data from Google Sheet"]
        ELSE [s1 EXCEPT !.sheets_data = "[Error]"]

affirmatives ==
    { Str_yes, <<"y">>, <<"t", "r", "u", "e">>, <<"1">>,
      <<"c", "o", "r", "r", "e", "c", "t">>,
      <<"a", "f", "f", "i", "r", "m", "a", "t", "i", "v", "e">>,
      <<"y", "e", "a", "h">>, <<"y", "e", "p">> }

negatives ==
    { Str_no, <<"n">>, <<"f", "a", "l", "s", "e">>, <<"0">>,
      <<"i", "n", "c", "o", "r", "r", "e", "c", "t">>,
      <<"n", "e", "g", "a", "t", "i", "v", "e">>,
      <<"n", "o", "p", "e">>, <<"n", "a", "h">> }

\* mutant: an output variable of the name is looked up before anything else
CheckValueVariablesFirst(st, field) ==
    IF field \in DOMAIN st.output_variables THEN st.output_variables[field]
    ELSE IF field = "message" THEN st.user_message
    ELSE st.response

\* the field the condition looks at
CheckValue(st, field) ==
    IF field = "message" THEN st.user_message
    ELSE IF field = "response" THEN st.response
    ELSE IF field \in DOMAIN st.output_variables THEN st.output_variables[field]
    ELSE st.response

\* re.search cannot compile the pattern: a parenthesis or a bracket of it is
\* left open (the patterns tried are texts without other special characters)
RegexMalformed(value) ==
    \/ Len(SelectSeq(value, LAMBDA ch : ch = "(")) # Len(SelectSeq(value, LAMBDA ch : ch = ")"))
    \/ Len(SelectSeq(value, LAMBDA ch : ch = "[")) # Len(SelectSeq(value, LAMBDA ch : ch = "]"))

\* bool(re.search(value, check_value, re.IGNORECASE)) inside try / except
RegexSearch(value, check_value) ==
    IF RegexMalformed(value) THEN FALSE ELSE Contains(Lower(check_value), Lower(value))

\* mutant: the error of a pattern that does not compile leaves the processor
ConditionRaisesOnBadPattern(nd) ==
    \/ /\ ~nd.valueIsStr
       /\ nd.conditionType \in {"contains", "equals", "startsWith", "endsWith"}
    \/ nd.conditionType = "regex" /\ nd.conditionValue # <<>>
           /\ RegexMalformed(nd.conditionValue)

\* value.lower() raises AttributeError on a value that is no str
ConditionRaises(nd) ==
    /\ ~nd.valueIsStr
    /\ nd.conditionType \in {"contains", "equals", "startsWith", "endsWith"}

EvalCondition(nd, check_value) ==
    LET value == nd.conditionValue
        ctype == nd.conditionType
    IN  IF ctype = "contains"
        THEN value # <<>> /\ Contains(Lower(check_value), Lower(value))
        ELSE IF ctype = "equals"
        THEN Strip(Lower(check_value)) = Strip(Lower(value))
        ELSE IF ctype = "startsWith"
        THEN value # <<>> /\ StartsWith(Strip(Lower(check_value)), Strip(Lower(value)))
        ELSE IF ctype = "endsWith"
        THEN value # <<>> /\ EndsWith(Strip(Lower(check_value)), Strip(Lower(value)))
        ELSE IF ctype = "regex"
        THEN value # <<>> /\ (nd.valueIsStr /\ RegexSearch(value, check_value))
        ELSE IF ctype = "isYes" THEN Strip(Lower(check_value)) \in affirmatives
        ELSE IF ctype = "isNo" THEN Strip(Lower(check_value)) \in negatives
        ELSE FALSE

\* mutant: an "id" of the node's own data is kept
data_with_own_id(data, nid) == data @@ ("id" :> nid)

\* data_with_id = {**data, "id": nid}
data_with_id(data, nid) == ("id" :> nid) @@ data

\* mutant: the data has no "id", so the result goes under the default key
process_if_condition_without_id(st, nd, nid) ==
    LET s1 == Logged(st, "if-condition")
        res == EvalCondition(nd, CheckValue(s1, nd.field))
    IN  [s1 EXCEPT !.condition_results = ("condition" :> res) @@ @]

\* node_fn hands the processor the data with the graph id of the node under
\* "id"; the result is recorded under node_data.get("id", "condition")
process_if_condition(st, nd, nid) ==
    LET s1 == Logged(st, "if-condition")
        node_data == data_with_id(nd, nid)
        key == IF "id" \in DOMAIN node_data THEN node_data.id ELSE "condition"
        res == EvalCondition(node_data, CheckValue(s1, node_data.field))
    IN  [s1 EXCEPT !.condition_results = (key :> res) @@ @]

\* mutant: the router reads the result negated
RouterNegated(branch, st, node_id) ==
    LET res == IF node_id \in DOMAIN st.condition_results
                  THEN st.condition_results[node_id] ELSE FALSE
    IN  IF ~res /\ branch.true_tgts # <<>> THEN branch.true_tgts[1]
        ELSE IF res /\ branch.false_tgts # <<>> THEN branch.false_tgts[1]
        ELSE END

\* mutant: the router falls back to the branch that is wired
RouterFallingBack(branch, st, node_id) ==
    LET res == IF node_id \in DOMAIN st.condition_results
                  THEN st.condition_results[node_id] ELSE FALSE
    IN  IF res /\ branch.true_tgts # <<>> THEN branch.true_tgts[1]
        ELSE IF ~res /\ branch.false_tgts # <<>> THEN branch.false_tgts[1]
        ELSE IF branch.true_tgts # <<>> THEN branch.true_tgts[1]
        ELSE IF branch.false_tgts # <<>> THEN branch.false_tgts[1]
        ELSE END

\* mutant: the router takes the target of the branch that was declared last
RouterTakingLast(branch, st, node_id) ==
    LET res == IF node_id \in DOMAIN st.condition_results
                  THEN st.condition_results[node_id] ELSE FALSE
    IN  IF res /\ branch.true_tgts # <<>> THEN branch.true_tgts[Len(branch.true_tgts)]
        ELSE IF ~res /\ branch.false_tgts # <<>>
        THEN branch.false_tgts[Len(branch.false_tgts)]
        ELSE END

\* make_router: where the conditional edge of node_id leads
Router(branch, st, node_id) ==
    LET res == IF node_id \in DOMAIN st.condition_results
                  THEN st.condition_results[node_id] ELSE FALSE
    IN  IF res /\ branch.true_tgts # <<>> THEN branch.true_tgts[1]
        ELSE IF ~res /\ branch.false_tgts # <<>> THEN branch.false_tgts[1]
        ELSE END

(***************************************************************************)
(* compiled.invoke: LangGraph runs the graph in supersteps.  The nodes in  *)
(* `active` run in one superstep; each node function returns the whole     *)
(* state, so two nodes in one superstep write every state key twice and    *)
(* LangGraph raises InvalidUpdateError.                                    *)
(***************************************************************************)
\* LangGraph's default recursion_limit: compiled.invoke is called without a config
RecursionLimit == 25

\* mutant: nothing is scheduled after a node that left the degraded response
NextActiveHaltingOnFailure(p, n, st) ==
    IF st.response = <<"Error generating response: ">> THEN {}
    ELSE ({e[2] : e \in {f \in p.edges : f[1] = n}}
            \cup (IF n \in DOMAIN p.branches THEN {Router(p.branches[n], st, n)} ELSE {}))
         \ {END}

\* the nodes the plain edges and the conditional edge of n trigger
NextActive(p, n, st) ==
    ({e[2] : e \in {f \in p.edges : f[1] = n}}
        \cup (IF n \in DOMAIN p.branches THEN {Router(p.branches[n], st, n)} ELSE {}))
    \ {END}

\* the path map of a conditional edge has no entry for what the router returned
RouteMissing(p, n, st) ==
    /\ n \in DOMAIN p.branches
    /\ Router(p.branches[n], st, n) \notin p.branches[n].route_map

Init ==
    /\ pc = "idle"
    /\ workflow = NoWorkflow
    /\ plan = NoPlan
    /\ state = NoState
    /\ active = {}
    /\ step = 0
    /\ trace = <<>>
    /\ result = NoResult
    /\ request = NoWorkflow
    /\ reply = NoResult
    /\ other = NoExecution

\* execute(message, workflow, conversation_history, ..., openai_api_key) up to the
\* call of compiled.invoke; message, history and key are first used after the
\* graph is built and compiled
Execute(wf) ==
    /\ pc = "idle"
    /\ workflow' = wf
    /\ UNCHANGED <<step, trace>>
    /\ UNCHANGED aside
    /\ IF DanglingConnection(wf)
       THEN /\ result' = BuildFailed("KeyError")
            /\ pc' = "done"
            /\ UNCHANGED <<plan, state, active>>
       ELSE LET graph == BuildGraph(wf)
            IN  /\ plan' = graph
                /\ \E reachCheck \in BOOLEAN :
                      IF CompileError(graph, reachCheck)
                      THEN /\ result' = BuildFailed("ValueError")
                           /\ pc' = "done"
                           /\ UNCHANGED <<state, active>>
                      ELSE /\ \E call \in Calls :
                                 state' = initial_state(call[1], call[2], call[3])
                           /\ active' = {graph.entry}
                           /\ pc' = "running"
                           /\ UNCHANGED result

CanStep(n) ==
    /\ pc = "running"
    /\ active = {n}
    /\ step < RecursionLimit

\* the superstep that ran node n alone and left the state st
Advance(n, st) ==
    /\ state' = st
    /\ step' = step + 1
    /\ trace' = Append(trace, {n})
    /\ IF RouteMissing(plan, n, st)
       THEN /\ result' = InvokeFailed("KeyError")
            /\ pc' = "done"
            /\ active' = {}
       ELSE /\ active' = NextActive(plan, n, st)
            /\ UNCHANGED <<pc, result>>
    /\ UNCHANGED <<workflow, plan>>
    /\ UNCHANGED aside

\* the node function raised: compiled.invoke raises, execute catches it
NodeRaised(n, st, exc) ==
    /\ state' = st
    /\ step' = step + 1
    /\ trace' = Append(trace, {n})
    /\ result' = InvokeFailed(exc)
    /\ pc' = "done"
    /\ active' = {}
    /\ UNCHANGED <<workflow, plan>>
    /\ UNCHANGED aside

StepTextInput(n) ==
    /\ CanStep(n)
    /\ GetProcessor(TypeOf(n)) = "process_text_input"
    /\ Advance(n, process_text_input(state))

StepTextOutput(n) ==
    /\ CanStep(n)
    /\ GetProcessor(TypeOf(n)) = "process_text_output"
    /\ Advance(n, process_text_output(state))

StepAiModel(n, llm) ==
    /\ CanStep(n)
    /\ GetProcessor(TypeOf(n)) = "process_ai_model"
    /\ Advance(n, process_ai_model(state, AiData(workflow, n), llm))

StepRagDocuments(n, found) ==
    /\ CanStep(n)
    /\ GetProcessor(TypeOf(n)) = "process_rag_documents"
    /\ found \in RagOutcomes(state)
    /\ Advance(n, process_rag_documents(state, found))

StepGoogleSheets(n, found) ==
    /\ CanStep(n)
    /\ GetProcessor(TypeOf(n)) = "process_google_sheets"
    /\ Advance(n, process_google_sheets(state, found))

StepIfCondition(n) ==
    /\ CanStep(n)
    /\ GetProcessor(TypeOf(n)) = "process_if_condition"
    /\ IF ConditionRaises(workflow.data)
       THEN NodeRaised(n, Logged(state, "if-condition"), "AttributeError")
       ELSE Advance(n, process_if_condition(state, workflow.data, n))

\* a superstep with several nodes: all of them run, then the second write of a
\* state key raises InvalidUpdateError
StepParallel ==
    /\ pc = "running"
    /\ Cardinality(active) > 1
    /\ step < RecursionLimit
    /\ step' = step + 1
    /\ trace' = Append(trace, active)
    /\ result' = InvokeFailed("InvalidUpdateError")
    /\ pc' = "done"
    /\ active' = {}
    /\ UNCHANGED <<workflow, plan, state>>
    /\ UNCHANGED aside

\* mutant: the limit is a visit budget of two visits for each declared node
StepLimitPerNode ==
    /\ pc = "running"
    /\ active # {}
    /\ step >= 2 * Len(workflow.nodes)
    /\ result' = InvokeFailed("GraphRecursionError")
    /\ pc' = "done"
    /\ active' = {}
    /\ UNCHANGED <<workflow, plan, state, step, trace>>
    /\ UNCHANGED aside

\* the recursion limit is reached with nodes still scheduled: GraphRecursionError
StepLimit ==
    /\ pc = "running"
    /\ active # {}
    /\ step >= RecursionLimit
    /\ result' = InvokeFailed("GraphRecursionError")
    /\ pc' = "done"
    /\ active' = {}
    /\ UNCHANGED <<workflow, plan, state, step, trace>>
    /\ UNCHANGED aside

\* no node is scheduled: compiled.invoke returns the final state
Return ==
    /\ pc = "running"
    /\ active = {}
    /\ result' = Returned(state)
    /\ pc' = "done"
    /\ UNCHANGED <<workflow, plan, state, active, step, trace>>
    /\ UNCHANGED aside

(***************************************************************************)
(* validate_workflow and get_workflow_type: they read the workflow they    *)
(* are given and nothing else.  A text is a sequence of pieces, so that    *)
(* the substring test on it is computed.                                   *)
(***************************************************************************)
\* node_types = [n.type for n in nodes]
node_types(nodes) == {TypeOf(nodes[i]) : i \in 1..Len(nodes)}

Issue_input == <<"Workflow needs an ", "input node", " (text-input or voice-input)">>
Issue_output == <<"Workflow needs an ", "output node", " (text-output or voice-output)">>
Issue_ai == <<"Workflow needs an ", "AI model node">>

\* connected_nodes: the ids the connections name as source or target
connected_nodes(wf) ==
    UNION {{c.sourceNodeId, c.targetNodeId} : c \in SeqToSet(wf.connections)}

\* mutant: a workflow of a single node is looked at like any other
orphans_of_any_size(wf) ==
    SelectSeq(wf.nodes, LAMBDA n : n \notin connected_nodes(wf))

\* orphans = [n.id for n in nodes if n.id not in connected_nodes and len(nodes) > 1]
orphans(wf) ==
    SelectSeq(wf.nodes, LAMBDA n : n \notin connected_nodes(wf) /\ Len(wf.nodes) > 1)

\* mutant: a missing ai-model node is not reported
issues_without_ai(wf) ==
    LET types == node_types(wf.nodes)
    IN  (IF types \cap {"text-input", "voice-input"} = {} THEN <<Issue_input>> ELSE <<>>)
        \o (IF types \cap {"text-output", "voice-output"} = {} THEN <<Issue_output>> ELSE <<>>)
        \o (IF orphans(wf) # <<>>
            THEN << <<"Orphan nodes (not connected): ">> \o orphans(wf) >> ELSE <<>>)

\* the issues list of validate_workflow
issues(wf) ==
    LET types == node_types(wf.nodes)
    IN  (IF types \cap {"text-input", "voice-input"} = {} THEN <<Issue_input>> ELSE <<>>)
        \o (IF types \cap {"text-output", "voice-output"} = {} THEN <<Issue_output>> ELSE <<>>)
        \o (IF "ai-model" \notin types THEN <<Issue_ai>> ELSE <<>>)
        \o (IF orphans(wf) # <<>>
            THEN << <<"Orphan nodes (not connected): ">> \o orphans(wf) >> ELSE <<>>)

validate_workflow(wf) ==
    [valid |-> Len(issues(wf)) = 0,
     issues |-> issues(wf),
     node_count |-> Len(wf.nodes),
     connection_count |-> Len(wf.connections),
     node_types |-> node_types(wf.nodes)]

\* mutant: a text-input node decides the input modality when both kinds are there
detect_preferring_text(nodes) ==
    LET types == node_types(nodes)
        input_type == IF "voice-input" \in types /\ "text-input" \notin types
                      THEN "voice" ELSE "text"
        output_type == IF "voice-output" \in types THEN "voice" ELSE "text"
    IN  [input_type |-> input_type,
         output_type |-> output_type,
         workflow_type |-> <<input_type, "-to-", output_type>>,
         has_rag |-> "rag-documents" \in types,
         has_sheets |-> "google-sheets" \in types,
         has_condition |-> "if-condition" \in types]

detect_workflow_type(nodes) ==
    LET types == node_types(nodes)
        input_type == IF "voice-input" \in types THEN "voice" ELSE "text"
        output_type == IF "voice-output" \in types THEN "voice" ELSE "text"
    IN  [input_type |-> input_type,
         output_type |-> output_type,
         workflow_type |-> <<input_type, "-to-", output_type>>,
         has_rag |-> "rag-documents" \in types,
         has_sheets |-> "google-sheets" \in types,
         has_condition |-> "if-condition" \in types]

\* POST /validate on the idle executor
ValidateWorkflow(wf) ==
    /\ pc = "idle"
    /\ request' = wf
    /\ reply' = validate_workflow(wf)
    /\ pc' = "validated"
    /\ UNCHANGED <<workflow, plan, state, active, step, trace, result, other>>

\* POST /workflow-type on the idle executor
GetWorkflowType(wf) ==
    /\ pc = "idle"
    /\ request' = wf
    /\ reply' = detect_workflow_type(wf.nodes)
    /\ pc' = "typed"
    /\ UNCHANGED <<workflow, plan, state, active, step, trace, result, other>>

Next ==
    \/ pc = "idle" /\ \E idx \in ConnChoices : \E wf \in Workflows(idx) : Execute(wf)
    \/ pc = "idle" /\ \E idx \in ConnChoices : \E wf \in Workflows(idx) : ValidateWorkflow(wf)
    \/ pc = "idle" /\ \E idx \in ConnChoices : \E wf \in Workflows(idx) : GetWorkflowType(wf)
    \/ \E n \in NodeIds : StepTextInput(n)
    \/ \E n \in NodeIds : StepTextOutput(n)
    \/ \E n \in NodeIds, llm \in LlmOutcomes : StepAiModel(n, llm)
    \/ \E n \in NodeIds, found \in {"faiss_missing", "ready", "none", "docs", "error"} :
          StepRagDocuments(n, found)
    \/ \E n \in NodeIds, found \in SheetsOutcomes : StepGoogleSheets(n, found)
    \/ \E n \in NodeIds : StepIfCondition(n)
    \/ StepParallel
    \/ StepLimit
    \/ Return

Spec == Init /\ [][Next]_vars

(***************************************************************************)
(* The straight workflows with their nodes declared in every order: no     *)
(* node of them has two outgoing connections, none is on a cycle, and none *)
(* is an if-condition node.                                                *)
(***************************************************************************)
NextDeclared ==
    \/ pc = "idle" /\ \E idx \in SUBSET StraightConns :
                        \E wf \in DeclaredWorkflows(idx) : Execute(wf)
    \/ \E n \in NodeIds : StepTextInput(n)
    \/ \E n \in NodeIds : StepTextOutput(n)
    \/ \E n \in NodeIds, llm \in LlmOutcomes : StepAiModel(n, llm)
    \/ \E n \in NodeIds, found \in {"faiss_missing", "ready", "none", "docs", "error"} :
          StepRagDocuments(n, found)
    \/ \E n \in NodeIds, found \in SheetsOutcomes : StepGoogleSheets(n, found)
    \/ Return

SpecDeclared == Init /\ [][NextDeclared]_vars

(***************************************************************************)
(* Two executions on the one executor of the service.  The variables of    *)
(* an execution are those of the execution that is running; `other` holds  *)
(* the execution that is not.  Switch turns from one to the other between  *)
(* two supersteps, which is at least as fine as the service interleaves    *)
(* two requests.  None of the workflows has a node with two outgoing plain *)
(* connections or a cycle.                                                 *)
(***************************************************************************)
Switch ==
    /\ pc # "idle"
    /\ other' = [pc |-> pc, workflow |-> workflow, plan |-> plan, state |-> state,
                 active |-> active, step |-> step, trace |-> trace, result |-> result]
    /\ pc' = other.pc
    /\ workflow' = other.workflow
    /\ plan' = other.plan
    /\ state' = other.state
    /\ active' = other.active
    /\ step' = other.step
    /\ trace' = other.trace
    /\ result' = other.result
    /\ UNCHANGED <<request, reply>>

NextInterleaved ==
    \/ pc = "idle" /\ \E wf \in InterleavedWorkflows : Execute(wf)
    \/ \E n \in NodeIds : StepTextInput(n)
    \/ \E n \in NodeIds : StepTextOutput(n)
    \/ \E n \in NodeIds, llm \in LlmOutcomes : StepAiModel(n, llm)
    \/ \E n \in NodeIds, found \in {"faiss_missing", "ready", "none", "docs", "error"} :
          StepRagDocuments(n, found)
    \/ \E n \in NodeIds, found \in SheetsOutcomes : StepGoogleSheets(n, found)
    \/ \E n \in NodeIds : StepIfCondition(n)
    \/ Return
    \/ Switch

SpecInterleaved == Init /\ [][NextInterleaved]_vars

(***************************************************************************)
(* The workflows with a second ai-model node, voice nodes, other ports and *)
(* output variables.  None of them has a node with two outgoing plain      *)
(* connections or a cycle.                                                 *)
(***************************************************************************)
NextVaried ==
    \/ pc = "idle" /\ \E wf \in VariedWorkflows : Execute(wf)
    \/ \E n \in VariedNodeIds : StepTextInput(n)
    \/ \E n \in VariedNodeIds : StepTextOutput(n)
    \/ \E n \in VariedNodeIds, llm \in LlmOutcomes : StepAiModel(n, llm)
    \/ \E n \in VariedNodeIds, found \in {"faiss_missing", "ready", "none", "docs", "error"} :
          StepRagDocuments(n, found)
    \/ \E n \in VariedNodeIds, found \in SheetsOutcomes : StepGoogleSheets(n, found)
    \/ \E n \in VariedNodeIds : StepIfCondition(n)
    \/ Return

SpecVaried == Init /\ [][NextVaried]_vars

\* compiled.invoke runs one superstep after the other until no node is
\* scheduled or a node raises: a traversal that can go on does go on
SpecVariedFair == SpecVaried /\ WF_vars(pc = "running" /\ NextVaried)

(***************************************************************************)
(* validate_workflow and get_workflow_type on workflows of every kind of   *)
(* node.                                                                   *)
(***************************************************************************)
NextInspected ==
    \/ pc = "idle" /\ \E ns \in InspectedNodeChoices, idx \in InspectedConnChoices :
                        ValidateWorkflow(InspectedWorkflow(ns, idx))
    \/ pc = "idle" /\ \E ns \in InspectedNodeChoices, idx \in InspectedConnChoices :
                        GetWorkflowType(InspectedWorkflow(ns, idx))

SpecInspected == Init /\ [][NextInspected]_vars

(***************************************************************************)
(* POST /chat: the endpoint hands message, workflow, conversation_history  *)
(* and session_id to execute and no openai_api_key, so that the key of the *)
(* execution is the default of that parameter.  The response it builds     *)
(* carries a processing time as well, which is wall-clock time and is left *)
(* out.                                                                    *)
(***************************************************************************)
\* mutant: the endpoint hands a key of the service to execute
ChatKeyFromService == "sk-user"

\* openai_api_key of execute as /chat calls it
ChatKey == None

\* the message and conversation_history of a ChatRequest
ChatCalls == {<<m, <<>>>> : m \in Messages} \cup {<<Str_no, PriorTurns>>}

ChatRequest(message, wf, conversation_history) ==
    [message |-> message, workflow |-> wf, conversation_history |-> conversation_history]

\* ChatResponse(response=result.get("response", ...), model_used=..., nodes_executed=...)
ChatResponse(res) ==
    [response |-> res.response,
     model_used |-> res.model_used,
     nodes_executed |-> res.nodes_executed]

\* chat(request) up to the call of compiled.invoke inside execute
Chat(wf) ==
    /\ pc = "idle"
    /\ workflow' = wf
    /\ UNCHANGED <<step, trace, reply, other>>
    /\ \E call \in ChatCalls :
          /\ request' = ChatRequest(call[1], wf, call[2])
          /\ IF DanglingConnection(wf)
             THEN /\ result' = BuildFailed("KeyError")
                  /\ pc' = "done"
                  /\ UNCHANGED <<plan, state, active>>
             ELSE LET graph == BuildGraph(wf)
                  IN  /\ plan' = graph
                      /\ \E reachCheck \in BOOLEAN :
                            IF CompileError(graph, reachCheck)
                            THEN /\ result' = BuildFailed("ValueError")
                                 /\ pc' = "done"
                                 /\ UNCHANGED <<state, active>>
                            ELSE /\ state' = initial_state(call[1], call[2], ChatKey)
                                 /\ active' = {graph.entry}
                                 /\ pc' = "running"
                                 /\ UNCHANGED result

\* chat(request) after execute returned: the ChatResponse is built
ChatRespond ==
    /\ pc = "done"
    /\ request # NoWorkflow
    /\ reply' = ChatResponse(result)
    /\ pc' = "responded"
    /\ UNCHANGED <<workflow, plan, state, active, step, trace, result, request, other>>

NextChat ==
    \/ pc = "idle" /\ \E idx \in ConnChoices : \E wf \in Workflows(idx) : Chat(wf)
    \/ \E n \in NodeIds : StepTextInput(n)
    \/ \E n \in NodeIds : StepTextOutput(n)
    \/ \E n \in NodeIds, llm \in LlmOutcomes : StepAiModel(n, llm)
    \/ \E n \in NodeIds, found \in {"faiss_missing", "ready", "none", "docs", "error"} :
          StepRagDocuments(n, found)
    \/ \E n \in NodeIds, found \in SheetsOutcomes : StepGoogleSheets(n, found)
    \/ \E n \in NodeIds : StepIfCondition(n)
    \/ StepParallel
    \/ StepLimit
    \/ Return
    \/ ChatRespond

SpecChat == Init /\ [][NextChat]_vars

(***************************************************************************)
(* The call-centre multi-agent graph of MultiAgent_LangGraph.py.  It is a  *)
(* compiled LangGraph like the graph of a workflow, and a run of it uses   *)
(* the variables of an execution: state holds the AgentState, active the   *)
(* scheduled nodes, trace the supersteps, result the record that           *)
(* process_voice_input returns, request its arguments and the speed_mode   *)
(* of the configuration.  A text is a sequence of characters; a Thai word  *)
(* is one element of it, written in Latin letters between braces.  The     *)
(* texts a tool or the language model gives back are sequences of pieces.  *)
(* Prompts are not modelled: what the language model answers is free.      *)
(***************************************************************************)
Letters ==
    <<"a", "b", "c", "d", "e", "f", "g", "h", "i", "j", "k", "l", "m",
      "n", "o", "p", "q", "r", "s", "t", "u", "v", "w", "x", "y", "z">>

Capitals ==
    <<"A", "B", "C", "D", "E", "F", "G", "H", "I", "J", "K", "L", "M",
      "N", "O", "P", "Q", "R", "S", "T", "U", "V", "W", "X", "Y", "Z">>

Digits == {"0", "1", "2", "3", "4", "5", "6", "7", "8", "9"}

\* the capital letter of each small letter, and the other way round
ToUpper == [c \in SeqToSet(Letters) |-> Capitals[CHOOSE k \in 1..Len(Letters) : Letters[k] = c]]

ToLower == [c \in SeqToSet(Capitals) |-> Letters[CHOOSE k \in 1..Len(Capitals) : Capitals[k] = c]]

\* str.upper()
Upper(s) == [i \in 1..Len(s) |-> IF s[i] \in DOMAIN ToUpper THEN ToUpper[s[i]] ELSE s[i]]

\* str.lower() on a text with any capital letter
LowerAscii(s) == [i \in 1..Len(s) |-> IF s[i] \in DOMAIN ToLower THEN ToLower[s[i]] ELSE s[i]]

IsLetter(c) == c \in DOMAIN ToUpper \cup DOMAIN ToLower

\* k letters and three digits stand at position i of s
LettersDigitsAt(s, i, k) ==
    /\ i + k + 2 <= Len(s)
    /\ \A j \in 0..(k - 1) : IsLetter(s[i + j])
    /\ \A j \in 0..2 : s[i + k + j] \in Digits

\* re.search(r'[a-z]{2,3}\d{3}', s, re.IGNORECASE).group(), <<>> for no match
sku_match(s) ==
    LET hits == {i \in 1..Len(s) : LettersDigitsAt(s, i, 3) \/ LettersDigitsAt(s, i, 2)}
    IN  IF hits = {} THEN <<>>
        ELSE LET i == CHOOSE h \in hits : \A g \in hits : h <= g
                 k == IF LettersDigitsAt(s, i, 3) THEN 3 ELSE 2
             IN  SubSeq(s, i, i + k + 2)

\* the word p and three digits stand at position i of s
WordDigitsAt(s, i, p) ==
    /\ i + Len(p) + 2 <= Len(s)
    /\ LowerAscii(SubSeq(s, i, i + Len(p) - 1)) = p
    /\ \A j \in 0..2 : s[i + Len(p) + j] \in Digits

FastPrefixes == << <<"t", "e", "l">>, <<"i", "n", "t">>, <<"t", "v">> >>

\* re.search(r'(tel|int|tv)\d{3}', s, re.IGNORECASE).group(), <<>> for no match
fast_sku_match(s) ==
    LET hits == {i \in 1..Len(s) : \E a \in 1..Len(FastPrefixes) : WordDigitsAt(s, i, FastPrefixes[a])}
    IN  IF hits = {} THEN <<>>
        ELSE LET i == CHOOSE h \in hits : \A g \in hits : h <= g
                 a == CHOOSE b \in 1..Len(FastPrefixes) :
                         /\ WordDigitsAt(s, i, FastPrefixes[b])
                         /\ \A c \in 1..(b - 1) : ~WordDigitsAt(s, i, FastPrefixes[c])
             IN  SubSeq(s, i, i + Len(FastPrefixes[a]) + 2)

\* any(w in text for w in words)
AnyIn(text, words) == \E w \in words : Contains(text, w)

W_hello == <<"h", "e", "l", "l", "o">>
W_hi == <<"h", "i">>
W_thank == <<"t", "h", "a", "n", "k">>
W_time == <<"t", "i", "m", "e">>
W_fiber == <<"f", "i", "b", "e", "r">>
W_galaxy == <<"g", "a", "l", "a", "x", "y">>
W_samsung == <<"s", "a", "m", "s", "u", "n", "g">>
W_tv == <<"t", "v">>
Th_hello == <<"{sawatdi}">>
Th_good_m == <<"{di khrap}">>
Th_good_f == <<"{di kha}">>
Th_thanks == <<"{khop khun}">>
Th_thanks2 == <<"{khop chai}">>
Th_time == <<"{wela}">>
Th_oclock == <<"{ki mong}">>
Th_date == <<"{wan thi}">>
Th_package == <<"{phaekket}">>
Th_internet == <<"{internet}">>
Th_phone == <<"{thorasap}">>

\* the pieces the response node looks for in the information
Mark_mock == "Mock:"
Mark_error == "Error:"
Mark_not_found == "{mai phop}"

\* a piece that stands for three hundred characters; the other pieces of a
\* text are short, and no text of the model has five hundred characters
LongPiece == "{300 characters}"

\* text[:200]
First200(text) ==
    IF LongPiece \in SeqToSet(text)
    THEN SubSeq(text, 1, (CHOOSE i \in 1..Len(text) :
                             text[i] = LongPiece /\ \A j \in 1..(i - 1) : text[j] # LongPiece) - 1)
             \o <<"{200 characters}">>
    ELSE text

MOCK_PRODUCTS ==
    << [sku |-> <<"T", "E", "L", "0", "0", "1">>,
        product_name |-> <<"{smartphone}", " ", "G", "a", "l", "a", "x", "y", " ", "A", "5", "4">>,
        category |-> Th_phone,
        owner_name |-> <<"{nai somchai chaidi}">>],
       [sku |-> <<"I", "N", "T", "0", "0", "2">>,
        product_name |-> Th_package \o Th_internet \o
                         <<" ", "F", "i", "b", "e", "r", " ", "1", "0", "0", "/", "3", "0">>,
        category |-> Th_internet,
        owner_name |-> <<"{nangsao mani sithong}">>],
       [sku |-> <<"T", "V", "0", "0", "3">>,
        product_name |-> <<"S", "m", "a", "r", "t", " ", "T", "V", " ",
                           "S", "a", "m", "s", "u", "n", "g", " ", "5", "5", " ", "{niu}">>,
        category |-> <<"{khrueang chai faifa}">>,
        owner_name |-> <<"{nai pracha rakdi}">>] >>

\* query_product_database with query_type get_by_sku
get_by_sku(sku) ==
    LET found == SelectSeq(MOCK_PRODUCTS, LAMBDA p : LowerAscii(p.sku) = LowerAscii(sku))
    IN  IF sku # <<>> /\ found # <<>>
        THEN <<"{sinkha} ">> \o found[1].product_name \o <<"{rahat}: ">> \o found[1].sku
        ELSE IF sku # <<>> THEN <<Mark_not_found, "{sinkha thi mi rahat} ">> \o sku
        ELSE <<"{karuna rabu pharamita}">>

RECURSIVE Listed(_)
\* "\n".join of the lines "- sku: ..." of the products
Listed(products) ==
    IF products = <<>> THEN <<>>
    ELSE <<"- ">> \o products[1].sku \o <<": ">> \o products[1].product_name
             \o Listed(Tail(products))

\* str(len(results)) for the products of the database
CountText(results) == <<"0", "1", "2", "3">>[Len(results) + 1]

\* query_product_database with query_type search
search_products(term) ==
    LET t == LowerAscii(term)
        results == SelectSeq(MOCK_PRODUCTS, LAMBDA p :
                       \/ Contains(LowerAscii(p.product_name), t)
                       \/ Contains(LowerAscii(p.category), t)
                       \/ Contains(LowerAscii(p.owner_name), t))
    IN  IF term # <<>> /\ results # <<>>
        THEN <<"{phop} ", CountText(results), " {raikan}:">> \o Listed(results)
        ELSE IF term # <<>> THEN <<Mark_not_found, "{sinkha thi trong kap} ">> \o term
        ELSE <<"{karuna rabu pharamita}">>

\* llm.invoke or a tool call raises
Raises == [raises |-> TRUE]

\* llm.invoke answers with a content that is a list of blocks, not a text
Blocks == [blocks |-> TRUE]

\* llm.invoke or a tool call gives back the text
Answer(text) == [content |-> text]

\* what search_documents gives back
RagAnswers ==
    { <<Mark_mock, " {khon ha ekkasan}">>,
      <<"{rabop khon ha ekkasan yang mai phrom}">>,
      <<"chunk">>,
      <<"chunk", LongPiece>>,
      <<Mark_not_found, "{khomun thi kiaokhong}">>,
      <<"{koet khophitphlat nai kan khon ha}: ", "exception">> }

\* what llm.invoke gives a specialist node as response.content
InfoAnswers == { <<>>, <<"answer">>, <<"answer", LongPiece>>, <<Mark_error, " answer">> }

\* what llm.invoke gives the supervisor as response.content
SupervisorAnswers ==
    { <<"P", "R", "O", "D", "U", "C", "T", " ", "-", " ", "s", "k", "u">>,
      <<"k", "n", "o", "w", "l", "e", "d", "g", "e">>,
      <<"K", "N", "O", "W", "L", "E", "D", "G", "E", " ", "-", "p", "r", "o", "d", "u", "c", "t">>,
      <<"G", "E", "N", "E", "R", "A", "L", " ", "-", " ", "h", "i">>,
      <<"h", "m", "m">>,
      <<>> }

\* what llm.invoke gives the response node as response.content
ResponseAnswers ==
    { <<" ", "o", "k", " ">>, <<"\"", "o", "k", "\"">>, <<"\"">>, <<>> }

\* a call that gives back one of the texts, or raises
Outcomes(texts) == {Answer(t) : t \in texts} \cup {Raises}

\* the texts of the callers
VoiceTexts ==
    { W_hi,
      <<"t", "h", "i", "n", "g">>,
      <<"t", "h", "a", "n", "k", "s">>,
      <<"t", "e", "l", "0", "0", "1">>,
      <<"i", "n", "t", "9", "9", "9">>,
      <<"a", "b", "1", "2", "3">>,
      W_fiber,
      W_tv,
      Th_package,
      W_time,
      <<"p", "o", "l", "i", "c", "y">> }

ConfigModel == "qwen2.5:7b"

\* initial_state of process_voice_input; processing_start is wall-clock time.
\* The code only tests information for truth, and None and the empty text are
\* both false: information starts as the empty text.  A conversation_history
\* of None is the empty one for the same reason.
agent_initial_state(text, conversation_history) ==
    [user_input |-> text,
     conversation_history |-> conversation_history,
     intent |-> None,
     intent_reason |-> None,
     information |-> <<>>,
     tool_outputs |-> <<>>,
     response |-> <<>>,
     model_used |-> ConfigModel,
     route_taken |-> <<>>]

\* content.split("-", 1)[1] of a content that holds "-"
AfterDash(content) ==
    LET i == CHOOSE k \in 1..Len(content) :
                 content[k] = "-" /\ \A j \in 1..(k - 1) : content[j] # "-"
    IN  SubSeq(content, i + 1, Len(content))

reason_of(content, otherwise) ==
    IF Contains(content, <<"-">>) THEN Strip(AfterDash(content)) ELSE otherwise

supervisor_node(st, llm) ==
    IF llm \in {Raises, Blocks}
    THEN [st EXCEPT !.intent = "GENERAL",
                    !.intent_reason = <<"{koet khophitphlat nai kan chat praphet}">>,
                    !.route_taken = Append(@, <<"supervisor", " -> ", "GENERAL (error)">>)]
    ELSE LET content == Strip(llm.content)
             intent == IF Contains(Upper(content), <<"P", "R", "O", "D", "U", "C", "T">>)
                       THEN "PRODUCT"
                       ELSE IF Contains(Upper(content),
                                        <<"K", "N", "O", "W", "L", "E", "D", "G", "E">>)
                       THEN "KNOWLEDGE"
                       ELSE "GENERAL"
             reason == reason_of(content, <<"{khamtham}", intent>>)
         IN  [st EXCEPT !.intent = intent,
                        !.intent_reason = reason,
                        !.route_taken = Append(@, <<"supervisor", " -> ", intent>>)]

SearchTriggers == {Th_package, Th_internet, W_fiber, Th_phone, W_galaxy, W_samsung}

SearchKeywords == <<Th_internet, W_fiber, Th_phone, W_galaxy, W_samsung, W_tv>>

product_node(st, llm) ==
    LET text_lower == LowerAscii(st.user_input)
        matched == sku_match(text_lower)
        sku == Upper(matched)
        keywords == SelectSeq(SearchKeywords, LAMBDA kw : Contains(text_lower, LowerAscii(kw)))
    IN  IF matched # <<>>
        THEN [st EXCEPT !.information = get_by_sku(sku),
                        !.tool_outputs = Append(@, <<"product_db[">> \o sku \o <<"]: ">> \o First200(get_by_sku(sku))),
                        !.route_taken = Append(@, <<"product", " -> ", "direct_sku">>)]
        ELSE IF AnyIn(text_lower, SearchTriggers) /\ keywords # <<>>
        THEN [st EXCEPT !.information = search_products(keywords[1]),
                        !.tool_outputs =
                            Append(@, <<"product_search[">> \o keywords[1] \o <<"]: ">>
                                          \o First200(search_products(keywords[1]))),
                        !.route_taken =
                            Append(@, <<"product", " -> ", "search[">> \o keywords[1] \o <<"]">>)]
        ELSE IF llm = Raises
        THEN [st EXCEPT !.information = <<"{kho aphai} {mai samat khon ha khomun sinkha}">>,
                        !.route_taken = Append(@, <<"product", " -> ", "error">>)]
        ELSE [st EXCEPT !.information = llm.content,
                        !.tool_outputs = Append(@, <<"product_llm: ">> \o First200(llm.content)),
                        !.route_taken = Append(@, <<"product", " -> ", "llm">>)]

knowledge_node(st, rag, llm) ==
    IF rag # Raises
    THEN [st EXCEPT !.information = rag.content,
                    !.tool_outputs = Append(@, <<"rag_search: ">> \o First200(rag.content)),
                    !.route_taken = Append(@, <<"knowledge", " -> ", "rag">>)]
    ELSE IF llm # Raises
    THEN [st EXCEPT !.information = llm.content,
                    !.tool_outputs = Append(@, <<"knowledge_llm: ">> \o First200(llm.content)),
                    !.route_taken = Append(@, <<"knowledge", " -> ", "llm_fallback">>)]
    ELSE [st EXCEPT !.information = <<"{kho aphai} {mai samat khon ha khomun}">>,
                    !.route_taken = Append(@, <<"knowledge", " -> ", "error">>)]

\* get_current_time: the clock is wall-clock time
time_info == <<"{wela patchuban nai prathet thai}: ", "clock">>

general_node(st, llm) ==
    LET text_lower == LowerAscii(st.user_input)
    IN  IF AnyIn(text_lower, {Th_hello, Th_good_m, Th_good_f, W_hello, W_hi})
        THEN [st EXCEPT !.information = <<"{sawatdi khrap} {yindi tonrap}">>,
                        !.route_taken = Append(@, <<"general", " -> ", "greeting">>)]
        ELSE IF AnyIn(text_lower, {Th_thanks, W_thank, Th_thanks2})
        THEN [st EXCEPT !.information = <<"{yindi khrap}">>,
                        !.route_taken = Append(@, <<"general", " -> ", "thanks">>)]
        ELSE IF AnyIn(text_lower, {Th_time, Th_oclock, W_time, Th_date})
        THEN [st EXCEPT !.information = time_info,
                        !.tool_outputs = Append(@, <<"time: ">> \o time_info),
                        !.route_taken = Append(@, <<"general", " -> ", "time">>)]
        ELSE IF llm # Raises
        THEN [st EXCEPT !.information = llm.content,
                        !.route_taken = Append(@, <<"general", " -> ", "llm">>)]
        ELSE [st EXCEPT !.information = <<"{sawatdi khrap} {mi arai hai chuai}">>,
                        !.route_taken = Append(@, <<"general", " -> ", "error">>)]

\* information is not empty, shorter than 300 characters and holds none of the marks
Conversational(information) ==
    /\ information # <<>>
    /\ LongPiece \notin SeqToSet(information)
    /\ SeqToSet(information) \cap {Mark_mock, Mark_error, Mark_not_found} = {}

\* final_response[1:-1] of a text in double quotes
Unquoted(s) ==
    IF StartsWith(s, <<"\"">>) /\ s[Len(s)] = "\"" THEN SubSeq(s, 2, Len(s) - 1) ELSE s

response_node(st, llm) ==
    IF Conversational(st.information)
    THEN [st EXCEPT !.response = st.information,
                    !.route_taken = Append(@, <<"response", " -> ", "direct">>)]
    ELSE IF llm \notin {Raises, Blocks}
    THEN [st EXCEPT !.response = Unquoted(Strip(llm.content)),
                    !.route_taken = Append(@, <<"response", " -> ", "composed">>)]
    ELSE [st EXCEPT !.response =
                        IF st.information # <<>> THEN st.information
                        ELSE <<"{kho aphai khrap} {mai samat pramuanphon}">>,
                    !.route_taken = Append(@, <<"response", " -> ", "fallback">>)]

\* mutant: only a PRODUCT intent leaves the general specialist aside
route_product_or_general(st) ==
    IF st.intent = "PRODUCT" THEN "product" ELSE "general"

route_after_supervisor(st) ==
    IF st.intent = "PRODUCT" THEN "product"
    ELSE IF st.intent = "KNOWLEDGE" THEN "knowledge"
    ELSE "general"

\* VoiceCallCenterMultiAgent._build_graph: the plain edges, the route map of the
\* conditional edges from supervisor, and the entry point
AgentGraph ==
    [nodes |-> {"supervisor", "product", "knowledge", "general", "response"},
     edges |-> {<<"product", "response">>, <<"knowledge", "response">>,
                <<"general", "response">>, <<"response", "END">>},
     branches |-> [supervisor |->
                      [product |-> "product", knowledge |-> "knowledge", general |-> "general"]],
     entry |-> "supervisor"]

\* the nodes scheduled after node n left the state st
AgentNextNodes(n, st) ==
    ({e[2] : e \in {d \in AgentGraph.edges : d[1] = n}}
        \cup (IF n \in DOMAIN AgentGraph.branches
              THEN {AgentGraph.branches[n][route_after_supervisor(st)]} ELSE {}))
    \ {"END"}

\* _fast_path returns None
NoFastPath == [none |-> TRUE]

\* _fast_path(text)
fast_path(text) ==
    LET text_lower == LowerAscii(text)
        matched == fast_sku_match(text_lower)
        sku == Upper(matched)
    IN  IF AnyIn(text_lower, {Th_hello, W_hello, W_hi, Th_good_m, Th_good_f})
        THEN [response |-> <<"{sawatdi khrap} {yindi tonrap}">>,
              model |-> ConfigModel, route |-> <<"fast_path_greeting">>]
        ELSE IF AnyIn(text_lower, {Th_thanks, W_thank, Th_thanks2})
        THEN [response |-> <<"{yindi khrap} {mi arai hai chuai phoemtoem}">>,
              model |-> ConfigModel, route |-> <<"fast_path_thanks">>]
        ELSE IF matched # <<>> /\ Mark_not_found \notin SeqToSet(get_by_sku(sku))
        THEN [response |-> <<"{phop khomun sinkha}: ">> \o get_by_sku(sku),
              model |-> ConfigModel, route |-> <<"fast_path_sku_">> \o sku]
        ELSE NoFastPath

RECURSIVE Joined(_, _)
\* sep.join(texts)
Joined(texts, sep) ==
    IF texts = <<>> THEN <<>>
    ELSE IF Len(texts) = 1 THEN texts[1]
    ELSE texts[1] \o <<sep>> \o Joined(Tail(texts), sep)

\* the record process_voice_input returns after graph.invoke
VoiceResult(final_state) ==
    [response |-> final_state.response,
     model |-> ConfigModel,
     intent |-> final_state.intent,
     route |-> Joined(final_state.route_taken, " -> "),
     metadata |-> [intent_reason |-> final_state.intent_reason,
                   tool_outputs |-> final_state.tool_outputs]]

VoiceRequest(text, conversation_history, speed_mode) ==
    [text |-> text, conversation_history |-> conversation_history, speed_mode |-> speed_mode]

\* process_voice_input up to the call of graph.invoke
ProcessVoiceInput(text, conversation_history, speed_mode) ==
    /\ pc = "idle"
    /\ request' = VoiceRequest(text, conversation_history, speed_mode)
    /\ IF speed_mode /\ fast_path(text) # NoFastPath
       THEN /\ result' = fast_path(text)
            /\ pc' = "done"
            /\ UNCHANGED <<state, active>>
       ELSE /\ state' = agent_initial_state(text, conversation_history)
            /\ active' = {AgentGraph.entry}
            /\ pc' = "running"
            /\ UNCHANGED result
    /\ UNCHANGED <<workflow, plan, step, trace, reply, other>>

\* node n of the agent graph is the one scheduled
AgentCanStep(n) ==
    /\ pc = "running"
    /\ active = {n}

\* the superstep that ran node n of the agent graph and left the state st
AgentAdvance(n, st) ==
    /\ state' = st
    /\ step' = step + 1
    /\ trace' = Append(trace, {n})
    /\ active' = AgentNextNodes(n, st)
    /\ UNCHANGED <<pc, workflow, plan, result>>
    /\ UNCHANGED aside

StepSupervisor(llm) ==
    /\ AgentCanStep("supervisor")
    /\ AgentAdvance("supervisor", supervisor_node(state, llm))

StepProduct(llm) ==
    /\ AgentCanStep("product")
    /\ AgentAdvance("product", product_node(state, llm))

StepKnowledge(rag, llm) ==
    /\ AgentCanStep("knowledge")
    /\ AgentAdvance("knowledge", knowledge_node(state, rag, llm))

StepGeneral(llm) ==
    /\ AgentCanStep("general")
    /\ AgentAdvance("general", general_node(state, llm))

StepResponse(llm) ==
    /\ AgentCanStep("response")
    /\ AgentAdvance("response", response_node(state, llm))

\* no node is scheduled: graph.invoke returns the final state
ReturnVoice ==
    /\ pc = "running"
    /\ active = {}
    /\ result' = VoiceResult(state)
    /\ pc' = "done"
    /\ UNCHANGED <<workflow, plan, state, active, step, trace>>
    /\ UNCHANGED aside

NextAgent ==
    \/ \E text \in VoiceTexts, h \in {<<>>, PriorTurns}, speed_mode \in BOOLEAN :
          ProcessVoiceInput(text, h, speed_mode)
    \/ \E llm \in Outcomes(SupervisorAnswers) \cup {Blocks} : StepSupervisor(llm)
    \/ \E llm \in Outcomes(InfoAnswers) : StepProduct(llm)
    \/ \E rag \in Outcomes(RagAnswers), llm \in Outcomes(InfoAnswers) : StepKnowledge(rag, llm)
    \/ \E llm \in Outcomes(InfoAnswers) : StepGeneral(llm)
    \/ \E llm \in Outcomes(ResponseAnswers) \cup {Blocks} : StepResponse(llm)
    \/ ReturnVoice

SpecAgent == Init /\ [][NextAgent]_vars

\* graph.invoke runs one superstep after the other until no node is scheduled
SpecAgentFair == SpecAgent /\ WF_vars(pc = "running" /\ NextAgent)

(***************************************************************************)
(* Notions the properties below are stated with, taken from the workflow   *)
(* as the caller wrote it.                                                 *)
(***************************************************************************)
Conns == SeqToSet(workflow.connections)

\* the workflow has a connection from node s to node t
Wired(s, t) == \E c \in Conns : c.sourceNodeId = s /\ c.targetNodeId = t

\* the workflow was accepted by _build_graph's adjacency loop
Built == pc # "idle" /\ ~(\E c \in Conns : {c.sourceNodeId, c.targetNodeId} \ NodeSet(workflow) # {})

Log == state.nodes_executed

LastRan == trace[Len(trace)]

\* execute returned the final state of a traversal that ran to its end
ReturnedNormally == pc = "done" /\ "rag_debug" \in DOMAIN result

\* tag1 is logged somewhere before position k of the log
LoggedBefore(log, tag1, k) == \E j \in 1..(k - 1) : log[j] = tag1

ContextNodes == rag_nodes(workflow) \cup sheets_nodes(workflow)

\* the declared targets of the connections leaving n through one of the ports
DeclaredTargets(n, ports) ==
    LET cs == SelectSeq(workflow.connections,
                        LAMBDA c : c.sourceNodeId = n /\ c.sourcePortId \in ports)
    IN  [i \in 1..Len(cs) |-> cs[i].targetNodeId]

TrueTargets(n) == DeclaredTargets(n, {Port_true, Port_True2})

FalseTargets(n) == DeclaredTargets(n, {Port_false, Port_False2})

\* the if-condition node n has just run alone and recorded its result
CondJustRan(n) ==
    /\ pc = "running"
    /\ trace # <<>>
    /\ LastRan = {n}
    /\ TypeOf(n) = "if-condition"
    /\ n \in DOMAIN state.condition_results

LlmErrorResponse == <<"Error generating response: ">>

(***************************************************************************)
(* C1: for every workflow in which an input node is wired to an ai-model   *)
(* node and a retrieval or spreadsheet node is wired to the same ai-model  *)
(* node, the plan holds input -> context node and context node -> ai-model *)
(* but no input -> ai-model edge, and every ai-model entry of the log has  *)
(* the context node's entry before it.                                     *)
(***************************************************************************)
C1_ContextRedirected ==
    \A i \in input_nodes(workflow), a \in ai_model_nodes(workflow), c \in ContextNodes :
        (Built /\ Wired(i, a) /\ Wired(c, a)) =>
            /\ <<i, c>> \in plan.edges
            /\ <<c, a>> \in plan.edges
            /\ <<i, a>> \notin plan.edges
            /\ \A k \in 1..Len(Log) :
                  Log[k] = "ai-model" => LoggedBefore(Log, TypeOf(c), k)

(***************************************************************************)
(* C2: when an if-condition node with both a true target and a false       *)
(* target has run, the traversal continues at the first true target if the *)
(* result recorded for the node is true and at the first false target if   *)
(* it is false.                                                            *)
(***************************************************************************)
C2_BranchFollowsResult ==
    \A n \in NodeIds :
        (CondJustRan(n) /\ TrueTargets(n) # <<>> /\ FalseTargets(n) # <<>>) =>
            active = {IF state.condition_results[n]
                      THEN TrueTargets(n)[1] ELSE FalseTargets(n)[1]}

C2_Witness ==
    /\ CondJustRan("cond")
    /\ TrueTargets("cond") # <<>> /\ FalseTargets("cond") # <<>>
    /\ TrueTargets("cond")[1] # FalseTargets("cond")[1]
    /\ state.condition_results["cond"]
    /\ active = {"outA"}

(***************************************************************************)
(* C3: execute never raises to its caller: whatever the workflow and       *)
(* whatever fails, it returns a record with the keys response,             *)
(* nodes_executed and model_used.                                          *)
(***************************************************************************)
C3_AlwaysStructuredResult ==
    pc = "done" => {"response", "nodes_executed", "model_used"} \subseteq DOMAIN result

C3_Witness ==
    /\ pc = "done"
    /\ trace # <<>>
    /\ result = InvokeFailed("AttributeError")

(***************************************************************************)
(* C4: in the plan every node that is no if-condition node has at most one *)
(* outgoing plain edge, the one of its first declared connection.          *)
(***************************************************************************)
C4_FanOutCollapsed ==
    pc = "running" =>
        \A n \in plan.nodes \ if_condition_nodes(workflow) :
            Cardinality({e \in plan.edges : e[1] = n}) <= 1

(***************************************************************************)
(* C5: in every step of every traversal at most one node is scheduled.     *)
(***************************************************************************)
C5_OneNodePerStep == Cardinality(active) <= 1

(***************************************************************************)
(* C6: when a retrieval node and a spreadsheet node both feed an ai-model  *)
(* node that the input node is wired to, an execution that runs to its end *)
(* logs the retrieval, then the spreadsheet, then the ai-model node.       *)
(***************************************************************************)
C6_RetrievalThenSheetsThenAi ==
    \A i \in input_nodes(workflow), a \in ai_model_nodes(workflow),
       r \in rag_nodes(workflow), sh \in sheets_nodes(workflow) :
        (ReturnedNormally /\ Wired(i, a) /\ Wired(r, a) /\ Wired(sh, a)) =>
            \E k \in 1..Len(result.nodes_executed) :
                /\ result.nodes_executed[k] = "ai-model"
                /\ \E j \in 1..(k - 1) :
                      /\ result.nodes_executed[j] = "google-sheets"
                      /\ LoggedBefore(result.nodes_executed, "rag-documents", j)

(***************************************************************************)
(* C7 as claimed: the router falls back to the wired branch when the       *)
(* selected branch is unwired, and routes to END only when neither branch  *)
(* has a target.                                                           *)
(***************************************************************************)
C7_FallsBackToWiredBranch ==
    \A n \in NodeIds :
        CondJustRan(n) =>
            LET res == state.condition_results[n]
                T == TrueTargets(n)
                F == FalseTargets(n)
            IN  active = IF res /\ T # <<>> THEN {T[1]}
                         ELSE IF ~res /\ F # <<>> THEN {F[1]}
                         ELSE IF T # <<>> THEN {T[1]}
                         ELSE IF F # <<>> THEN {F[1]}
                         ELSE {}

(***************************************************************************)
(* C7 as amended: when the branch the result selects is unwired, the       *)
(* router routes to END, also when the other branch has a target.          *)
(***************************************************************************)
C7_UnwiredBranchRoutesToEnd ==
    \A n \in NodeIds :
        (/\ CondJustRan(n)
         /\ IF state.condition_results[n] THEN TrueTargets(n) = <<>>
                                          ELSE FalseTargets(n) = <<>>)
            => active = {}

C7_Witness ==
    /\ CondJustRan("cond")
    /\ state.condition_results["cond"]
    /\ TrueTargets("cond") = <<>>
    /\ FalseTargets("cond") # <<>>
    /\ active = {}

(***************************************************************************)
(* C8: an if-condition node with only a true target wired whose condition  *)
(* evaluates to false ends the traversal: nothing is scheduled after it,   *)
(* and execute returns the final state, not an error, with the node in the *)
(* log.                                                                    *)
(***************************************************************************)
OnlyTrueWiredAndFalse(n) ==
    /\ pc # "idle"
    /\ trace # <<>>
    /\ LastRan = {n}
    /\ TypeOf(n) = "if-condition"
    /\ n \in DOMAIN state.condition_results
    /\ ~state.condition_results[n]
    /\ TrueTargets(n) # <<>>
    /\ FalseTargets(n) = <<>>

C8_FalseWithOnlyTrueTargetEnds ==
    \A n \in NodeIds :
        OnlyTrueWiredAndFalse(n) =>
            /\ active = {}
            /\ pc = "done" =>
                  /\ result = Returned(state)
                  /\ result.nodes_executed # <<>>
                  /\ result.nodes_executed[Len(result.nodes_executed)] = "if-condition"

C8_Witness ==
    /\ OnlyTrueWiredAndFalse("cond")
    /\ pc = "done"
    /\ result.nodes_executed = <<"text-input", "if-condition">>

(***************************************************************************)
(* C9 as claimed: once the language-model call of an ai-model node has     *)
(* failed and the degraded response is written, the traversal halts: the   *)
(* failing node stays the last entry of the log.                           *)
(***************************************************************************)
C9_HaltsAfterFailure ==
    state.response = LlmErrorResponse => Log[Len(Log)] = "ai-model"

(***************************************************************************)
(* C9 as amended: a node function that raises ends the traversal with an   *)
(* "Error executing workflow" result and no further node runs; a failing   *)
(* language-model call is caught inside the ai-model node, which writes    *)
(* the degraded response, and the traversal goes on to the node's declared *)
(* successors.                                                             *)
(***************************************************************************)
C9_FailureCaughtTraversalContinues ==
    /\ \A n \in ai_model_nodes(workflow) :
          (/\ pc = "running"
           /\ trace # <<>>
           /\ LastRan = {n}
           /\ state.response = LlmErrorResponse)
              => /\ result = NoResult
                 /\ Log[Len(Log)] = "ai-model"
                 /\ active = {c.targetNodeId : c \in {d \in Conns : d.sourceNodeId = n}}
    /\ (pc = "done" /\ result = InvokeFailed("AttributeError"))
          => /\ active = {}
             /\ LastRan \subseteq if_condition_nodes(workflow)
             /\ LastRan \cap DOMAIN state.condition_results = {}

C9_Witness ==
    /\ state.response = LlmErrorResponse
    /\ Len(Log) > 1
    /\ Log[Len(Log)] = "text-output"
    /\ Log[Len(Log) - 1] = "ai-model"

(***************************************************************************)
(* C10: a workflow with a connection whose source or target is not a       *)
(* declared node is refused before any node runs: execute returns the      *)
(* "Error building workflow" result and nothing was executed.              *)
(***************************************************************************)
C10_DanglingRejected ==
    (pc # "idle" /\ ~Built) =>
        /\ pc = "done"
        /\ trace = <<>>
        /\ state.nodes_executed = <<>>
        /\ "response" \in DOMAIN result
        /\ result.response[1] = "Error building workflow: "
        /\ result.nodes_executed = <<>>

C10_Witness ==
    /\ pc = "done"
    /\ \E c \in Conns : c.targetNodeId \notin NodeSet(workflow)
    /\ result = BuildFailed("KeyError")

(***************************************************************************)
(* C11: a workflow that declares a node whose kind is none of the          *)
(* supported kinds is refused before any node runs, whether or not a       *)
(* connection names that node: execute returns the "Error building         *)
(* workflow" result and nothing was executed.                              *)
(***************************************************************************)
SupportedKinds ==
    {"text-input", "voice-input", "ai-model", "rag-documents", "google-sheets",
     "if-condition", "text-output", "voice-output"}

UnknownKindNodes == {n \in NodeSet(workflow) : TypeOf(n) \notin SupportedKinds}

C11_UnknownKindRejected ==
    (pc # "idle" /\ UnknownKindNodes # {}) =>
        /\ pc = "done"
        /\ trace = <<>>
        /\ state.nodes_executed = <<>>
        /\ result.response[1] = "Error building workflow: "
        /\ result.nodes_executed = <<>>

\* the node of unknown kind is declared beside a workflow that is sound without it
C11_Witness ==
    /\ pc = "done"
    /\ UnknownKindNodes = {"x"}
    /\ "x" \notin connected_nodes(workflow)
    /\ Wired("in", "ai") /\ Wired("ai", "outA")
    /\ result = BuildFailed("ValueError")

(***************************************************************************)
(* Cycles of the connections.                                              *)
(***************************************************************************)
Successors(wf, ns) ==
    {c.targetNodeId : c \in {d \in SeqToSet(wf.connections) : d.sourceNodeId \in ns}}

RECURSIVE ReachableFrom(_, _)
\* the nodes the connections lead to from the nodes ns, these included
ReachableFrom(wf, ns) ==
    IF Successors(wf, ns) \subseteq ns THEN ns
    ELSE ReachableFrom(wf, ns \cup Successors(wf, ns))

\* the connections contain a cycle that can be reached from the entry node
CycleFromEntry ==
    /\ plan.entry # None
    /\ \E n \in ReachableFrom(workflow, {plan.entry}) :
          n \in ReachableFrom(workflow, Successors(workflow, {n}))

CycleError == InvokeFailed("GraphRecursionError")

Candidates ==
    SelectSeq(workflow.nodes, LAMBDA n : \A c \in Conns : c.targetNodeId # n)

CandidatesOfKind(kinds) == SelectSeq(Candidates, LAMBDA n : TypeOf(n) \in kinds)

\* the first element of the first sequence that has one
FirstOf(seqs) ==
    LET full == SelectSeq(seqs, LAMBDA q : q # <<>>)
    IN  IF full = <<>> THEN None ELSE full[1][1]

\* the workflow was built and compiled, and its traversal started
Compiled == pc = "running" \/ (pc = "done" /\ result # BuildFailed("KeyError")
                                            /\ result # BuildFailed("ValueError"))

(***************************************************************************)
(* C13 as claimed: the entry node is the first candidate of an input kind, *)
(* else the first candidate of the retrieval kind, else the candidate      *)
(* declared first; here a candidate is a node no connection leads to.      *)
(***************************************************************************)
C13_EntryInputThenRetrievalThenFirst ==
    (pc # "idle" /\ Built) =>
        plan.entry = FirstOf(<< CandidatesOfKind({"text-input", "voice-input"}),
                                CandidatesOfKind({"rag-documents"}),
                                Candidates >>)

(***************************************************************************)
(* C13 as amended: the entry node is the first candidate of an input kind, *)
(* else the first candidate of the retrieval kind, else the first          *)
(* candidate of the spreadsheet kind, also when a candidate of another     *)
(* kind is declared before it, and only then the candidate declared        *)
(* first; the traversal starts at the entry node.                          *)
(***************************************************************************)
C13_EntryPrefersSheetsBeforeFirst ==
    /\ (pc # "idle" /\ Built) =>
          plan.entry = FirstOf(<< CandidatesOfKind({"text-input", "voice-input"}),
                                  CandidatesOfKind({"rag-documents"}),
                                  CandidatesOfKind({"google-sheets"}),
                                  Candidates >>)
    /\ (Compiled /\ trace # <<>>) => trace[1] = {plan.entry}

\* an ai-model candidate is declared before the spreadsheet candidate
C13_Witness ==
    /\ Compiled
    /\ Candidates # <<>>
    /\ TypeOf(Candidates[1]) = "ai-model"
    /\ CandidatesOfKind({"text-input", "voice-input", "rag-documents"}) = <<>>
    /\ plan.entry = "sheets"
    /\ trace # <<>>
    /\ trace[1] = {"sheets"}

(***************************************************************************)
(* The workflows of exactly one input, one ai-model and one output node,   *)
(* wired input -> ai-model -> output.                                      *)
(***************************************************************************)
LinearWorkflow ==
    /\ pc # "idle"
    /\ Len(workflow.nodes) = 3
    /\ \E i \in input_nodes(workflow), a \in ai_model_nodes(workflow),
          o \in NodesOfType(workflow, {"text-output", "voice-output"}) :
            /\ NodeSet(workflow) = {i, a, o}
            /\ \A c \in Conns : <<c.sourceNodeId, c.targetNodeId>> \in {<<i, a>>, <<a, o>>}
            /\ Wired(i, a) /\ Wired(a, o)

\* the single nodes visited, in the order of the visits
Visited == [k \in 1..Len(trace) |-> CHOOSE n \in trace[k] : TRUE]

LinearLog == <<"text-input", "ai-model", "text-output">>

(***************************************************************************)
(* C14 as claimed: for a workflow of one input, one ai-model and one       *)
(* output node wired linearly, execute visits the nodes in the order they  *)
(* are declared and returns the log [text-input, ai-model, text-output].   *)
(***************************************************************************)
C14_LinearVisitsInDeclarationOrder ==
    (LinearWorkflow /\ pc = "done") =>
        /\ Visited = workflow.nodes
        /\ result.nodes_executed = LinearLog

(***************************************************************************)
(* C14 as amended: for a workflow of one input, one ai-model and one       *)
(* output node wired linearly, whatever the order its nodes are declared   *)
(* in, execute visits the input node, then the ai-model node, then the     *)
(* output node, each one wired from the one before, and returns the log    *)
(* [text-input, ai-model, text-output].                                    *)
(***************************************************************************)
C14_LinearVisitsInConnectionOrder ==
    /\ (LinearWorkflow /\ pc = "done") =>
          /\ ReturnedNormally
          /\ result.nodes_executed = LinearLog
          /\ [k \in 1..Len(Visited) |-> TypeOf(Visited[k])] = LinearLog
          /\ \A k \in 2..Len(Visited) : Wired(Visited[k - 1], Visited[k])
    /\ (LinearWorkflow /\ pc = "running") =>
          /\ Cardinality(active) <= 1
          /\ Log = SubSeq(LinearLog, 1, Len(trace))

\* the nodes are declared output first and input last
C14_Witness ==
    /\ LinearWorkflow
    /\ pc = "done"
    /\ TypeOf(workflow.nodes[1]) = "text-output"
    /\ TypeOf(workflow.nodes[3]) = "text-input"
    /\ result.nodes_executed = LinearLog

(***************************************************************************)
(* The workflow that was validated or typed, as the caller wrote it.       *)
(***************************************************************************)
RequestKinds == {TypeOf(n) : n \in SeqToSet(request.nodes)}

\* the declared nodes no connection names as its source or its target
Unreferenced ==
    {n \in SeqToSet(request.nodes) :
        \A i \in 1..Len(request.connections) :
            /\ request.connections[i].sourceNodeId # n
            /\ request.connections[i].targetNodeId # n}

OrphanIssues ==
    SelectSeq(reply.issues, LAMBDA t : t[1] = "Orphan nodes (not connected): ")

\* the node ids the orphan issues list
ReportedOrphans ==
    UNION {SeqToSet(Tail(OrphanIssues[i])) : i \in 1..Len(OrphanIssues)}

(***************************************************************************)
(* C15: validate on a workflow with an input and an output node, no        *)
(* ai-model node and no orphan returns valid = false and exactly one       *)
(* issue, which contains the text "AI model node"; and for every workflow  *)
(* valid is true exactly when the list of issues is empty.                 *)
(***************************************************************************)
C15_MissingAiIsTheOneIssue ==
    pc = "validated" =>
        /\ reply.valid <=> reply.issues = <<>>
        /\ (/\ "ai-model" \notin RequestKinds
            /\ RequestKinds \cap {"text-input", "voice-input"} # {}
            /\ RequestKinds \cap {"text-output", "voice-output"} # {}
            /\ Unreferenced = {})
              => /\ ~reply.valid
                 /\ Len(reply.issues) = 1
                 /\ Contains(reply.issues[1], <<"AI model node">>)

C15_Witness ==
    /\ pc = "validated"
    /\ request.nodes = <<"in", "cond", "outB">>
    /\ Unreferenced = {}
    /\ ~reply.valid
    /\ reply.issues = << <<"Workflow needs an ", "AI model node">> >>

(***************************************************************************)
(* C16 as claimed: validate lists every declared node that no connection   *)
(* names as an orphan and then returns valid = false, in workflows of      *)
(* every size, the workflow of a single node included.                     *)
(***************************************************************************)
C16_EveryUnreferencedNodeReported ==
    pc = "validated" =>
        /\ ReportedOrphans = Unreferenced
        /\ Unreferenced # {} => ~reply.valid

(***************************************************************************)
(* C16 as amended: in a workflow of more than one node validate lists      *)
(* every declared node that no connection names, in one orphan issue, and  *)
(* returns valid = false; in a workflow of a single node it reports no     *)
(* orphan, and the workflow is invalid only for the kinds it lacks.        *)
(***************************************************************************)
C16_OrphansReportedBeyondOneNode ==
    pc = "validated" =>
        /\ Len(request.nodes) > 1 =>
              /\ ReportedOrphans = Unreferenced
              /\ Len(OrphanIssues) = (IF Unreferenced = {} THEN 0 ELSE 1)
              /\ Unreferenced # {} => ~reply.valid
        /\ Len(request.nodes) <= 1 =>
              /\ OrphanIssues = <<>>
              /\ \A i \in 1..Len(reply.issues) : reply.issues[i][1] = "Workflow needs an "

\* a single ai-model node, named by no connection, is not reported
C16_Witness ==
    /\ pc = "validated"
    /\ request.nodes = <<"ai">>
    /\ Unreferenced = {"ai"}
    /\ OrphanIssues = <<>>
    /\ Len(reply.issues) = 2

(***************************************************************************)
(* C20: the input modality is voice exactly when a voice-input node is     *)
(* declared, also beside a text-input node, and text otherwise; the output *)
(* modality is voice exactly when a voice-output node is declared;         *)
(* has_rag, has_sheets and has_condition tell whether a node of the kind   *)
(* is declared; the connections have no part in the result.                *)
(***************************************************************************)
C20_ModalityFromKindsAlone ==
    pc = "typed" =>
        /\ reply.input_type = (IF "voice-input" \in RequestKinds THEN "voice" ELSE "text")
        /\ reply.output_type = (IF "voice-output" \in RequestKinds THEN "voice" ELSE "text")
        /\ reply.workflow_type = <<reply.input_type, "-to-", reply.output_type>>
        /\ reply.has_rag <=> "rag-documents" \in RequestKinds
        /\ reply.has_sheets <=> "google-sheets" \in RequestKinds
        /\ reply.has_condition <=> "if-condition" \in RequestKinds

\* a text-input and a voice-input node, with connections that name other nodes
C20_Witness ==
    /\ pc = "typed"
    /\ {"text-input", "voice-input"} \subseteq RequestKinds
    /\ "voice-output" \notin RequestKinds
    /\ request.connections # <<>>
    /\ reply.workflow_type = <<"voice", "-to-", "text">>

\* p is the beginning of q
IsPrefix(p, q) == Len(p) <= Len(q) /\ SubSeq(q, 1, Len(p)) = p

(***************************************************************************)
(* C19: in every step of a traversal the user message and the conversation *)
(* history of the execution state stay what they were, and the log after   *)
(* the step starts with the log before it: the log only grows at its end.  *)
(***************************************************************************)
C19_InputsKeptLogAppendOnly ==
    [][pc = "running" =>
          /\ state'.user_message = state.user_message
          /\ state'.conversation_history = state.conversation_history
          /\ IsPrefix(state.nodes_executed, state'.nodes_executed)]_vars

\* three nodes have run in a conversation that has a history
C19_Witness ==
    /\ pc = "done"
    /\ state.user_message = Str_no
    /\ state.conversation_history = PriorTurns
    /\ Log = <<"text-input", "ai-model", "text-output">>

(***************************************************************************)
(* The two executions of the executor, each as a record, and what an       *)
(* execution on its own leaves in its state.                               *)
(***************************************************************************)
ThisExecution ==
    [pc |-> pc, workflow |-> workflow, plan |-> plan, state |-> state,
     active |-> active, step |-> step, trace |-> trace, result |-> result]

\* the nodes execution e visited, and their kinds in the order of the visits
VisitedNodes(e) == UNION {e.trace[k] : k \in 1..Len(e.trace)}

VisitedKinds(e) == [k \in 1..Len(e.trace) |-> TypeOf(CHOOSE n \in e.trace[k] : TRUE)]

\* the state of e holds what the nodes e visited make of the message, history
\* and key e was called with, and nothing else
Alone(e) ==
    e.pc \in {"running", "done"} =>
        LET st == e.state
            kinds == SeqToSet(VisitedKinds(e))
        IN  /\ st.nodes_executed = VisitedKinds(e)
            /\ DOMAIN st.condition_results = VisitedNodes(e) \cap if_condition_nodes(e.workflow)
            /\ \A n \in DOMAIN st.condition_results :
                  e.workflow.data.field = "message" =>
                      st.condition_results[n] = EvalCondition(e.workflow.data, st.user_message)
            /\ st.response \in
                  (IF "ai-model" \notin kinds THEN {<<>>}
                   ELSE IF st.openai_api_key = None THEN {DemoPrefix \o st.user_message}
                   ELSE {Str_yes, LlmErrorResponse})
            /\ st.rag_context # None => "rag-documents" \in kinds
            /\ st.sheets_data # None <=> "google-sheets" \in kinds
            /\ st.conversation_history \in {<<>>, PriorTurns}
            /\ st.conversation_history = PriorTurns => st.user_message = Str_no
            /\ e.pc = "done" => e.result = Returned(st)

C18_InterleavedExecutionsIsolated == Alone(ThisExecution) /\ Alone(other)

\* both executions are under way, on different workflows and messages
C18_Witness ==
    /\ pc = "running" /\ other.pc = "running"
    /\ workflow # other.workflow
    /\ state.user_message # other.state.user_message
    /\ Log = <<"text-input", "if-condition">>
    /\ state.condition_results["cond"]
    /\ other.state.nodes_executed = <<"text-input", "rag-documents", "ai-model">>
    /\ other.state.rag_context = "[Source 1]"
    /\ other.state.response = Str_yes

\* the built graph has an entry and joins added nodes only, each of them with an
\* edge in and an edge out: every LangGraph release compiles it
SoundPlan ==
    /\ plan.entry # None
    /\ EdgeSources(plan) \subseteq plan.nodes
    /\ EdgeTargets(plan) \subseteq plan.nodes \cup {END}
    /\ plan.nodes \subseteq EdgeSources(plan) \cap EdgeTargets(plan)

(***************************************************************************)
(* C21: validation is advisory only.  execute builds, compiles and runs a  *)
(* workflow without asking validate_workflow: a workflow that              *)
(* validate_workflow reports as not valid is traversed whenever its graph  *)
(* can be built and compiled.                                              *)
(***************************************************************************)
C21_InvalidWorkflowStillExecuted ==
    (/\ pc \in {"running", "done"}
     /\ ~validate_workflow(workflow).valid
     /\ SoundPlan)
        => Compiled

\* a workflow without an ai-model node ran to its end and returned its log
C21_Witness ==
    /\ ReturnedNormally
    /\ ~validate_workflow(workflow).valid
    /\ Issue_ai \in SeqToSet(validate_workflow(workflow).issues)
    /\ Log # <<>>

(***************************************************************************)
(* The order of a traversal, read from the supersteps that ran.            *)
(***************************************************************************)
\* node n ran in one of the supersteps before superstep i
RanBefore(n, i) == \E j \in 1..(i - 1) : n \in trace[j]

\* the retrieval and spreadsheet nodes with a connection into node a
ContextSources(a) == {c \in ContextNodes : Wired(c, a)}

(***************************************************************************)
(* C22: every ai-model node that runs and has a retrieval or spreadsheet   *)
(* node wired into it runs after that node has run in the same traversal,  *)
(* whichever kind of node leads to the ai-model node.                      *)
(***************************************************************************)
C22_ContextRunsBeforeItsAiModel ==
    \A i \in 1..Len(trace) :
        \A a \in trace[i] :
            TypeOf(a) = "ai-model" =>
                \A c \in ContextSources(a) : RanBefore(c, i)

\* a retrieval or spreadsheet node is connected to the context port of node a
FedThroughContextPort(a) ==
    \E c \in Conns :
        /\ c.sourceNodeId \in ContextNodes
        /\ c.targetNodeId = a
        /\ c.targetPortId = Port_context

(***************************************************************************)
(* C23: only a connection into the context port redirects.  Where no       *)
(* retrieval or spreadsheet node is connected to the context port of an    *)
(* ai-model node, the connection from an input node to that ai-model node  *)
(* is an edge of the graph as it was written.                              *)
(***************************************************************************)
C23_RedirectionOnlyThroughContextPort ==
    pc = "running" =>
        \A c \in Conns :
            (/\ c.sourceNodeId \in input_nodes(workflow)
             /\ c.targetNodeId \in ai_model_nodes(workflow)
             /\ ~FedThroughContextPort(c.targetNodeId))
                => <<c.sourceNodeId, c.targetNodeId>> \in plan.edges

\* no node ran in two supersteps of the traversal
NoRevisit == \A i, j \in 1..Len(trace) : i # j => trace[i] \cap trace[j] = {}

LoggedKind(kind) ==
    CASE kind = "voice-input" -> "text-input"
      [] kind = "voice-output" -> "text-output"
      [] OTHER -> kind

(***************************************************************************)
(* C25 as claimed: every node invocation appends exactly one entry to the  *)
(* log, and the entry is the kind of the invoked node, the voice kinds     *)
(* included.                                                               *)
(***************************************************************************)
C25_EachInvocationLogsOwnKind ==
    pc \in {"running", "done"} =>
        /\ Len(Log) = Len(trace)
        /\ \A i \in 1..Len(trace) : \A n \in trace[i] : Log[i] = TypeOf(n)

(***************************************************************************)
(* C25, amended: every node invocation appends exactly one entry to the    *)
(* log.  The entry is the kind of the invoked node for the text, ai-model, *)
(* retrieval, spreadsheet and condition kinds; a voice-input node appends  *)
(* "text-input" and a voice-output node appends "text-output".             *)
(***************************************************************************)
C25_EachInvocationLogsProcessorKind ==
    pc \in {"running", "done"} =>
        /\ Len(Log) = Len(trace)
        /\ \A i \in 1..Len(trace) : \A n \in trace[i] : Log[i] = LoggedKind(TypeOf(n))

\* a voice-input, an ai-model and a voice-output node ran and logged
C25_Witness ==
    /\ ReturnedNormally
    /\ trace = <<{"vin"}, {"ai"}, {"vout"}>>
    /\ Log = <<"text-input", "ai-model", "text-output">>

\* the if-condition nodes that ran in this traversal
CondNodesRun ==
    {n \in if_condition_nodes(workflow) : \E i \in 1..Len(trace) : n \in trace[i]}

\* the if-condition node n ran last and its processing step did not raise
CondProcessed(n) ==
    /\ pc \in {"running", "done"}
    /\ trace # <<>>
    /\ LastRan = {n}
    /\ TypeOf(n) = "if-condition"
    /\ result # InvokeFailed("AttributeError")

\* where the recorded result res leads along the branches b
RoutedBy(b, res) ==
    IF res /\ b.true_tgts # <<>> THEN {b.true_tgts[1]}
    ELSE IF ~res /\ b.false_tgts # <<>> THEN {b.false_tgts[1]}
    ELSE {}

(***************************************************************************)
(* C26: when the router of an if-condition node is evaluated, the          *)
(* condition results hold an entry under the id of that node, written by   *)
(* the processing step of that node in this traversal: the entries are     *)
(* those of the if-condition nodes that ran, the entry is the value of the *)
(* condition, and the traversal goes where that entry leads.               *)
(***************************************************************************)
C26_RouterReadsOwnRecordedResult ==
    /\ pc \in {"running", "done"} => DOMAIN state.condition_results \subseteq CondNodesRun
    /\ \A n \in NodeSet(workflow) :
          CondProcessed(n) =>
              /\ n \in DOMAIN state.condition_results
              /\ state.condition_results[n]
                    = EvalCondition(workflow.data, CheckValue(state, workflow.data.field))
              /\ (pc = "running" /\ n \in DOMAIN plan.branches)
                    => active = RoutedBy(plan.branches[n], state.condition_results[n])

\* the condition was true, recorded as true and the true branch is taken
C26_Witness ==
    /\ CondProcessed("cond")
    /\ pc = "running"
    /\ state.condition_results = ("cond" :> TRUE)
    /\ active = {"outA"}

RECURSIVE Executed(_)
\* the number of node invocations in the supersteps tr
Executed(tr) == IF tr = <<>> THEN 0 ELSE Cardinality(Head(tr)) + Executed(Tail(tr))

\* the traversal ended behind node n: n has the edge to END, or the router of n
\* yields END, or nothing leaves n
StopsBehind(n) ==
    \/ <<n, END>> \in plan.edges
    \/ n \in DOMAIN plan.branches /\ Router(plan.branches[n], state, n) = END
    \/ n \in if_condition_nodes(workflow) /\ Adjacency(workflow, n) = <<>>

(***************************************************************************)
(* C27: the traversal of a workflow without a cycle terminates.  A node    *)
(* that is no if-condition node and has no outgoing connection has the     *)
(* edge to END; a traversal that returns normally stopped behind such a    *)
(* node or behind an if-condition node whose router yields END; the number *)
(* of node invocations is at most the number of declared nodes; and every  *)
(* traversal that was started ends.                                        *)
(***************************************************************************)
C27_AcyclicTraversalTerminates ==
    /\ [](pc = "running" =>
            \A n \in plan.nodes \ if_condition_nodes(workflow) :
                Adjacency(workflow, n) = <<>> => <<n, END>> \in plan.edges)
    /\ []((pc \in {"running", "done"} /\ ~CycleFromEntry) =>
            Executed(trace) <= Len(workflow.nodes))
    /\ []((ReturnedNormally /\ ~CycleFromEntry) =>
            \E n \in plan.nodes : LastRan = {n} /\ StopsBehind(n))
    /\ (pc = "running" ~> pc = "done")

\* a traversal of five nodes ended behind an output node
C27_Witness ==
    /\ ReturnedNormally
    /\ ~CycleFromEntry
    /\ Len(trace) = 5
    /\ LastRan \subseteq {"outA", "outB"}
    /\ <<"outA", END>> \in plan.edges

\* neither a true nor a false branch of the if-condition node n is wired
Unbranched(n) ==
    /\ PortTargets(workflow, n, <<"t", "r", "u", "e">>) = <<>>
    /\ PortTargets(workflow, n, <<"f", "a", "l", "s", "e">>) = <<>>

C29_FirstDeclaredTargetTaken ==
    \A n \in if_condition_nodes(workflow) :
        (CondProcessed(n) /\ pc = "running") =>
            /\ (state.condition_results[n] /\ TrueTargets(n) # <<>>)
                  => active = {TrueTargets(n)[1]}
            /\ (~state.condition_results[n] /\ FalseTargets(n) # <<>>)
                  => active = {FalseTargets(n)[1]}

\* two targets on the true branch, the one declared first is scheduled
C29_Witness ==
    /\ CondProcessed("cond")
    /\ pc = "running"
    /\ state.condition_results["cond"]
    /\ TrueTargets("cond") = <<"outB", "outA">>
    /\ FalseTargets("cond") = <<"outA", "outB">>
    /\ active = {"outB"}

\* the text the claim says the field f of a condition stands for
ResolvedField(f) ==
    IF f = "message" THEN state.user_message
    ELSE IF f = "response" THEN state.response
    ELSE IF f \in DOMAIN state.output_variables THEN state.output_variables[f]
    ELSE state.response

(***************************************************************************)
(* C30: the field of a condition.  "message" is the user message and       *)
(* "response" the current response, also when an output variable of that   *)
(* name was recorded; any other name is the output variable of that name   *)
(* if one was recorded and the current response otherwise.  The recorded   *)
(* result of the if-condition node is the condition on that text.          *)
(***************************************************************************)
C30_FieldResolution ==
    \A n \in if_condition_nodes(workflow) :
        CondProcessed(n) =>
            state.condition_results[n]
                = EvalCondition(workflow.data, ResolvedField(workflow.data.field))

\* an output variable named "message" holds "yes", the user message is "no",
\* and the condition on the field "message" is false
C30_Witness ==
    /\ CondProcessed("cond")
    /\ workflow.data.field = "message"
    /\ "message" \in DOMAIN state.output_variables
    /\ state.output_variables["message"] = Str_yes
    /\ state.user_message = Str_no
    /\ state.condition_results["cond"] = FALSE

\* the if-condition node n has a regex condition whose pattern does not compile
BadPattern(n) ==
    /\ TypeOf(n) = "if-condition"
    /\ workflow.data.conditionType = "regex"
    /\ LET v == workflow.data.conditionValue
       IN  \E i \in 1..Len(v) : v[i] \in {"(", "["} /\ ~\E j \in 1..Len(v) : v[j] \in {")", "]"}

(***************************************************************************)
(* C31: an if-condition node with a regex condition whose pattern is       *)
(* malformed records false under its id, the traversal goes on along the   *)
(* false route, and execute never returns an error result for it.          *)
(***************************************************************************)
C31_MalformedPatternIsFalse ==
    \A n \in CondNodesRun :
        BadPattern(n) =>
            /\ n \in DOMAIN state.condition_results
            /\ state.condition_results[n] = FALSE
            /\ (pc = "running" /\ LastRan = {n}) => active = SeqToSet(FalseTargets(n))
            /\ pc = "done" => ReturnedNormally

\* the pattern "(yes" on the message "yes ": false is recorded, outB is next
C31_Witness ==
    /\ pc = "running"
    /\ trace # <<>>
    /\ LastRan = {"cond"}
    /\ BadPattern("cond")
    /\ state.user_message = Str_YesBlank
    /\ state.condition_results = ("cond" :> FALSE)
    /\ active = {"outB"}

\* the retrieval node ran and found no documents to put into the slot
RetrievalWithoutResult ==
    /\ pc \in {"running", "done"}
    /\ \E i \in 1..Len(trace) : trace[i] \cap rag_nodes(workflow) # {}
    /\ state.rag_context # "[Source 1]"

(***************************************************************************)
(* C32: when the retrieval is unavailable or finds nothing (the vector     *)
(* library is missing, no API key, no documents, no relevant result, an    *)
(* error inside the retrieval), the retrieval node leaves the retrieval    *)
(* slot unset, and the content a later ai-model node sends is the message  *)
(* without a retrieval part.                                               *)
(***************************************************************************)
C32_FailedRetrievalLeavesSlotUnset ==
    RetrievalWithoutResult =>
        /\ state.rag_context = None
        /\ state.sheets_data = None => user_content(state) = state.user_message

\* the ai-model node a ran last
AiJustRan(a) ==
    /\ pc \in {"running", "done"}
    /\ trace # <<>>
    /\ LastRan = {a}
    /\ TypeOf(a) = "ai-model"

\* the output variable name configured for the ai-model node a, "" for none
VariableOf(a) ==
    IF "variables" \in DOMAIN workflow /\ a \in DOMAIN workflow.variables
    THEN workflow.variables[a] ELSE ""

(***************************************************************************)
(* C33 as claimed: after every invocation of an ai-model node the response *)
(* and the model identifier were written by it, and the output variable it *)
(* is configured with holds the new response, on the success path, the     *)
(* path without API key and the path of a language model error alike.      *)
(***************************************************************************)
C33_AiModelAlwaysWritesAll ==
    \A a \in NodeSet(workflow) :
        AiJustRan(a) =>
            /\ state.model_used # None
            /\ VariableOf(a) # "" =>
                  /\ VariableOf(a) \in DOMAIN state.output_variables
                  /\ state.output_variables[VariableOf(a)] = state.response

(***************************************************************************)
(* C33, amended: every invocation of an ai-model node writes the response. *)
(* On the success path and on the path without API key it also writes the  *)
(* model identifier and stores the new response under the configured       *)
(* output variable; on the path of a language model error the response is  *)
(* the error text, and the model identifier and the output variables stay  *)
(* as they were before the invocation.                                     *)
(***************************************************************************)
C33_AiModelWritesExceptOnError ==
    [][\A a \in VariedNodeIds :
          (TypeOf(a) = "ai-model" /\ trace' = Append(trace, {a})) =>
              IF state'.response = LlmErrorResponse
              THEN /\ state.openai_api_key # None
                   /\ state'.model_used = state.model_used
                   /\ state'.output_variables = state.output_variables
              ELSE /\ state'.response =
                        (IF state.openai_api_key # None THEN Str_yes
                         ELSE DemoPrefix \o state.user_message)
                   /\ state'.model_used =
                        (IF state.openai_api_key # None THEN DefaultModelName
                         ELSE "none (mock)")
                   /\ IF VariableOf(a) = ""
                      THEN state'.output_variables = state.output_variables
                      ELSE /\ VariableOf(a) \in DOMAIN state'.output_variables
                           /\ state'.output_variables[VariableOf(a)] = state'.response]_vars

\* the second ai-model node met a language model error: the model identifier
\* and the output variable are those the first one wrote
C33_Witness ==
    /\ AiJustRan("ai2")
    /\ state.response = LlmErrorResponse
    /\ state.model_used = DefaultModelName
    /\ state.output_variables = ("answer" :> Str_yes)

InputOutputKinds == {"text-input", "voice-input", "text-output", "voice-output"}

(***************************************************************************)
(* C34: executing an input node or an output node appends one entry to the *)
(* log and changes nothing else of the execution state: the response, the  *)
(* context slots, the condition results, the output variables and the      *)
(* model identifier stay as they are.                                      *)
(***************************************************************************)
C34_InputOutputOnlyLog ==
    [][\A n \in VariedNodeIds :
          (TypeOf(n) \in InputOutputKinds /\ trace' = Append(trace, {n})) =>
              /\ Len(state'.nodes_executed) = Len(state.nodes_executed) + 1
              /\ IsPrefix(state.nodes_executed, state'.nodes_executed)
              /\ [state' EXCEPT !.nodes_executed = state.nodes_executed] = state]_vars

\* an output node ran behind two ai-model nodes and an if-condition node:
\* what these wrote is still there
C34_Witness ==
    /\ pc \in {"running", "done"}
    /\ trace # <<>>
    /\ LastRan \subseteq {"outA", "outB"}
    /\ Log[Len(Log)] = "text-output"
    /\ state.response = DemoPrefix \o Str_YesBlank
    /\ state.model_used = "none (mock)"
    /\ "answer" \in DOMAIN state.output_variables
    /\ "cond" \in DOMAIN state.condition_results

(***************************************************************************)
(* C35: the result of an if-condition node is recorded under the graph id  *)
(* of the node, the key its router reads, also when the data of the node   *)
(* has an "id" entry of its own: the recorded keys are the ids of the      *)
(* if-condition nodes that ran, and the traversal goes where the value of  *)
(* the condition leads.                                                    *)
(***************************************************************************)
C35_RecordedUnderGraphId ==
    /\ pc \in {"running", "done"} => DOMAIN state.condition_results = CondNodesRun
    /\ \A n \in NodeSet(workflow) :
          (CondProcessed(n) /\ pc = "running" /\ n \in DOMAIN plan.branches) =>
              active = RoutedBy(plan.branches[n],
                                EvalCondition(workflow.data,
                                              CheckValue(state, workflow.data.field)))

\* the data of the node says "id": "mine"; the true result is under "cond" and
\* the true branch is taken
C35_Witness ==
    /\ CondProcessed("cond")
    /\ pc = "running"
    /\ "id" \in DOMAIN workflow.data
    /\ workflow.data.id = "mine"
    /\ state.condition_results = ("cond" :> TRUE)
    /\ active = {"outA"}

(***************************************************************************)
(* C36: when building, compiling or traversing fails, the result of        *)
(* execute has an empty nodes_executed, model_used None and a response     *)
(* that begins with "Error building workflow" or "Error executing          *)
(* workflow", however many nodes ran; on success nodes_executed is the log *)
(* of the final state, one entry for each node in the order they ran.      *)
(***************************************************************************)
C36_ErrorResultEmptySuccessFullLog ==
    pc = "done" =>
        IF ReturnedNormally
        THEN /\ result.nodes_executed = Log
             /\ result.model_used = state.model_used
             /\ Len(Log) = Len(trace)
             /\ \A i \in 1..Len(trace) :
                   \A n \in trace[i] : Log[i] = LoggedKind(TypeOf(n))
        ELSE /\ result.nodes_executed = <<>>
             /\ result.model_used = None
             /\ result.response[1] \in {"Error building workflow: ",
                                         "Error executing workflow: "}
             /\ DOMAIN result = {"response", "nodes_executed", "model_used"}

\* the traversal failed behind an ai-model node that had named its model
C36_Witness ==
    /\ pc = "done"
    /\ ~ReturnedNormally
    /\ Len(Log) >= 2
    /\ state.model_used = DefaultModelName
    /\ result.response[1] = "Error executing workflow: "
    /\ result.nodes_executed = <<>>
    /\ result.model_used = None

(***************************************************************************)
(* C37: when no declared node is free of incoming connections (every node  *)
(* is on a cycle, say) or no node is declared, no entry point is set and   *)
(* execute returns an error result without invoking a node.                *)
(***************************************************************************)
C37_NoEntryNoRun ==
    (pc \in {"running", "done"} /\ Candidates = <<>>) =>
        /\ pc = "done"
        /\ trace = <<>>
        /\ Log = <<>>
        /\ result.response[1] = "Error building workflow: "
        /\ result.nodes_executed = <<>>

\* the one node of the workflow is connected to itself
C37_Witness ==
    /\ pc = "done"
    /\ workflow.nodes = <<"ai">>
    /\ Wired("ai", "ai")
    /\ plan.entry = None
    /\ result = BuildFailed("ValueError")

\* an ai-model node was invoked in a superstep of the execution
AiRan == \E i \in 1..Len(trace) : \E a \in trace[i] : trace[i] = {a} /\ TypeOf(a) = "ai-model"

\* the execution was started by POST /chat
ThroughChat == pc \in {"running", "done", "responded"} /\ request # NoWorkflow

(***************************************************************************)
(* C38 as claimed: every execution started through /chat has no user API   *)
(* key in its state, and the model identifier of the response is           *)
(* "none (mock)" whenever an ai-model node ran.                            *)
(***************************************************************************)
C38_ChatResultAlwaysMock ==
    /\ ThroughChat => state.openai_api_key = None
    /\ (ThroughChat /\ pc = "responded" /\ AiRan) => reply.model_used = "none (mock)"

(***************************************************************************)
(* C38, amended: every execution started through /chat has no user API key *)
(* in its state; every ai-model node it invokes takes the branch without   *)
(* key, so that the response of the state is the demo text or still empty  *)
(* and never a text of the language model or of its failure, and the model *)
(* identifier of the state is "none (mock)" once an ai-model node ran.     *)
(* The model identifier of the response is "none (mock)" when an ai-model  *)
(* node ran and the traversal ended without an error; when the traversal   *)
(* ended with an error the response carries no model identifier, whether   *)
(* an ai-model node ran or not.                                            *)
(***************************************************************************)
C38_ChatTakesDemoBranch ==
    ThroughChat =>
        /\ state.openai_api_key = None
        /\ state.response \in {<<>>, DemoPrefix \o state.user_message}
        /\ state.model_used = (IF AiRan THEN "none (mock)" ELSE None)
        /\ pc = "responded" =>
              reply.model_used =
                  (IF "rag_debug" \in DOMAIN result /\ AiRan THEN "none (mock)" ELSE None)

\* a /chat request whose ai-model node ran and whose traversal ended normally
C38_Witness ==
    /\ ThroughChat
    /\ pc = "responded"
    /\ AiRan
    /\ "rag_debug" \in DOMAIN result
    /\ reply.model_used = "none (mock)"
    /\ reply.response = DemoPrefix \o request.message

\* process_voice_input was called
VoiceCalled == pc \in {"running", "done"} /\ "text" \in DOMAIN request

\* the call runs or has run the graph: it did not return from the fast path
GraphRun == VoiceCalled /\ (pc = "running" \/ "intent" \in DOMAIN result)

Specialists == {"product", "knowledge", "general"}

\* the entry the supervisor appends when its model call fails
SupervisorFailed == <<"supervisor", " -> ", "GENERAL (error)">>

\* the nodes visited so far are supervisor, one specialist chosen by the
\* intent, and response, in this order, and each of them appended an entry
VisitsInOrder ==
    /\ Len(trace) <= 3
    /\ Len(trace) >= 1 => trace[1] = {"supervisor"}
    /\ Len(trace) >= 2 =>
          \E s \in Specialists :
              /\ trace[2] = {s}
              /\ s = "product" <=> state.intent = "PRODUCT"
              /\ s = "knowledge" <=> state.intent = "KNOWLEDGE"
              /\ state.route_taken[1] = SupervisorFailed => s = "general"
    /\ Len(trace) = 3 => trace[3] = {"response"} /\ active = {}
    /\ Len(state.route_taken) >= Len(trace)
    /\ \A i \in 1..Len(trace) :
          \E j \in 1..Len(state.route_taken) : state.route_taken[j][1] \in trace[i]
    /\ pc = "done" => Len(trace) = 3 /\ result.response = state.response

====
